---- MODULE Spec2Model ----
(***************************************************************************)
(* Model of the privacy store of the TalentScout hiring assistant          *)
(* (utils/data_handler.py, class DataHandler): the encrypted record files, *)
(* the export artifacts, the audit log, and the save / load / export /     *)
(* delete / retention-sweep operations on them.                            *)
(*                                                                         *)
(* Python values are modelled as tuples so that None, strings and          *)
(* ciphertext tokens can be compared: None is <<"None">>, the string s is  *)
(* <<"str", s>>, json.dumps(v) is <<"json", v>>, the bytes s.encode() are  *)
(* <<"utf8", s>> and the base64-encoded Fernet token of the bytes b under  *)
(* the key k is <<"fernet", k, b>>. An exception raised by a library call  *)
(* is the value <<"raise">>.                                               *)
(* Time is counted in seconds, the resolution of the export file name; a   *)
(* day is DayLen seconds (scaled down).                                    *)
(***************************************************************************)
EXTENDS Integers, Sequences, FiniteSets, TLC

VARIABLES
    now,            \* the clock: datetime.now(), in seconds
    encrypted,      \* data/encrypted/candidate_<sid>.json, per session id
    exports,        \* data/exports/: the set of export files
    activity_log,   \* data/activity_log.json: log_data['activities']
    ret,            \* the last step taken and what the operation returned
    budget,         \* steps the run may still perform (bounds the model)
    injected,       \* filesystem faults injected so far (bounds the model)
    lastSaved,      \* history: per session, the input of the last successful save
    erased,         \* history: sessions deleted with success and not saved since
    key_file,       \* data/.encryption_key: the persisted key, or NoKeyFile
    encryption_key, \* self.encryption_key of the store in use, or NoStore
    generated,      \* history: the calls of Fernet.generate_key so far
    instance,       \* history: the store constructions so far
    twin,           \* the record files and the audit log of a second run that
                    \* gets the same calls with other personal values (followed
                    \* only in the specifications that compare two runs)
    calls,          \* the calls in progress at the same time, each with its
                    \* position and local variables, and the state of the audit
                    \* log file between an open and the dump (used only in the
                    \* specification of concurrent calls)
    session         \* st.session_state of the browser session: the session id,
                    \* the HiringAssistant and the messages shown (followed only
                    \* in the specification of the conversation)

storeVars == <<key_file, encryption_key, generated, instance>>

vars == <<now, encrypted, exports, activity_log, ret, budget, injected, lastSaved, erased,
          key_file, encryption_key, generated, instance, twin, calls, session>>

(***************************************************************************)
(* Bounds of the model.                                                    *)
(***************************************************************************)
MaxOps == 3          \* store operations (and file corruptions) in a run
MaxAgedOps == 2      \* the same, in a run that starts from a long audit log
MaxInputs == 3       \* texts entered and buttons pressed in a run of the page
MaxSessions == 2     \* browser sessions started in a run of the conversation
MaxFaults == 1       \* filesystem calls that raise in a run
MaxTime == 1         \* last clock reading
DayLen == 1          \* seconds in a day (scaled)
MaxRetention == 1    \* largest retention_days passed to the sweep
MaxStores == 3       \* store constructions on one data directory

(***************************************************************************)
(* Program constants.                                                      *)
(***************************************************************************)
AuditCap == 1000

\* log_data['activities'][-10:] in get_privacy_report
RecentCount == 10

(***************************************************************************)
(* Python values.                                                          *)
(***************************************************************************)
None == <<"None">>

PyStr(s) == <<"str", s>>

\* bool(v) of a value that is None or a str
Truthy(v) == v # None /\ v # PyStr("")

\* bool(v) of a value that is None or a list
TruthyList(v) == v # None /\ v # <<>>

\* json.dumps(v): a conversion, inverted by json.loads only
JsonDumps(v) == <<"json", v>>

JsonLoads(s) == s[2]

IsJson(s) == Len(s) = 2 /\ s[1] = "json"

(***************************************************************************)
(* Session ids: any string. The second id extends the first by "_b", the   *)
(* shape that matters to the prefix match of the export file names.        *)
(***************************************************************************)
SidA == <<"a">>

SidAB == <<"a", "_", "b">>

SessionIds == {SidA, SidAB}

(***************************************************************************)
(* Strings and bytes. A str that holds a lone surrogate code point (s      *)
(* followed by U+D800) cannot be encoded as UTF-8.                         *)
(***************************************************************************)
Raised == <<"raise">>

WithSurrogate(s) == <<"str", s, "\\ud800">>

HasSurrogate(v) == Len(v) = 3 /\ v[1] = "str"

\* data.encode(): AttributeError on None, UnicodeEncodeError on a surrogate
StrEncode(data) ==
    IF data = None \/ HasSurrogate(data) THEN Raised ELSE <<"utf8", data>>

\* bytes.decode()
BytesDecode(b) == b[2]

(***************************************************************************)
(* The key file and the cipher (cryptography.fernet.Fernet).               *)
(***************************************************************************)
NoKeyFile == <<"nokey">>

NoStore == <<"nostore">>

\* Fernet.generate_key(): the n-th call returns a key no earlier call returned
GenerateKey(n) == <<"key", n>>

\* a key that no call of generate_key in this directory returned
ForeignKey == GenerateKey(0)

\* a _get_or_create_encryption_key that never looks for the key file
GetOrCreateEncryptionKey_AlwaysNew(file, n) ==
    [key |-> GenerateKey(n + 1), file |-> GenerateKey(n + 1), generated |-> n + 1]

\* _get_or_create_encryption_key, on the key file and the number of keys
\* generated so far: the key returned, the key file and that number afterwards
GetOrCreateEncryptionKey(file, n) ==
    IF file # NoKeyFile
    THEN [key |-> file, file |-> file, generated |-> n]
    ELSE [key |-> GenerateKey(n + 1), file |-> GenerateKey(n + 1), generated |-> n + 1]

\* base64.b64encode(cipher_suite.encrypt(bytes)).decode()
CipherEncrypt(key, bytes) == <<"fernet", key, bytes>>

IsToken(c) == Len(c) = 3 /\ c[1] = "fernet"

\* a token with one character changed
Tampered(c) == <<"tampered", c>>

\* cipher_suite.decrypt(base64.b64decode(...)): the bytes of a token made
\* under the same key; binascii.Error or InvalidToken on anything else
CipherDecrypt(key, c) ==
    IF IsToken(c) /\ c[2] = key THEN c[3] ELSE Raised

\* an encrypt that returns the empty string when the encryption fails
EncryptData_EmptyOnError(data) ==
    LET bytes == StrEncode(data)
    IN  IF bytes = Raised THEN PyStr("") ELSE CipherEncrypt(encryption_key, bytes)

\* _encrypt_data: the token of data.encode(); data itself when that raises
EncryptData(data) ==
    LET bytes == StrEncode(data)
    IN  IF bytes = Raised THEN data ELSE CipherEncrypt(encryption_key, bytes)

\* the body of the try block of _decrypt_data
TryDecrypt(c) ==
    IF StrEncode(c) = Raised THEN Raised
    ELSE LET bytes == CipherDecrypt(encryption_key, c)
         IN  IF bytes = Raised THEN Raised ELSE BytesDecode(bytes)

\* a decrypt that hands back the ciphertext
DecryptData_Ciphertext(c) == c

\* a decrypt without the except clause
DecryptData_Propagates(c) == TryDecrypt(c)

\* _decrypt_data: the plaintext of a token made under the store's key;
\* anything else raises inside and is returned as it is
DecryptData(c) ==
    LET data == TryDecrypt(c)
    IN  IF data = Raised THEN c ELSE data

\* hash_email / hash_phone: sha256(s.encode()).hexdigest()[:n]; the encode
\* is not inside a try
HashEmail(email) ==
    IF StrEncode(email) = Raised THEN Raised ELSE <<"sha256", 16, email>>

HashPhone(phone) ==
    IF StrEncode(phone) = Raised THEN Raised ELSE <<"sha256", 12, phone>>

(***************************************************************************)
(* Inputs of save: candidate records and transcripts.                      *)
(***************************************************************************)
CandFull ==
    [full_name |-> PyStr("Ann Lee"), email |-> PyStr("a@b.com"),
     phone |-> PyStr("555-123-4567"), current_location |-> PyStr("Pune"),
     years_experience |-> PyStr("3"), desired_positions |-> PyStr("dev"),
     tech_stack |-> <<"Python", "Docker">>]

CandPartial ==
    [full_name |-> PyStr("Bo Roy"), email |-> PyStr(""),
     phone |-> PyStr(""), current_location |-> PyStr(""),
     years_experience |-> PyStr(""), desired_positions |-> PyStr(""),
     tech_stack |-> <<>>]

Transcript ==
    << [role |-> "user", content |-> "hi"],
       [role |-> "assistant", content |-> "hello"] >>

\* the same records with other personal values, empty where those are empty
CandFull2 ==
    [full_name |-> PyStr("Cy Diaz"), email |-> PyStr("c@d.org"),
     phone |-> PyStr("444-987-6543"), current_location |-> PyStr("Oslo"),
     years_experience |-> PyStr("3"), desired_positions |-> PyStr("dev"),
     tech_stack |-> <<"Python", "Docker">>]

CandPartial2 ==
    [full_name |-> PyStr("Di Kim"), email |-> PyStr(""),
     phone |-> PyStr(""), current_location |-> PyStr(""),
     years_experience |-> PyStr(""), desired_positions |-> PyStr(""),
     tech_stack |-> <<>>]

Transcript2 ==
    << [role |-> "user", content |-> "hey"],
       [role |-> "assistant", content |-> "welcome"] >>

\* records with a name and location, or an email, that cannot be encoded
CandOddName ==
    [CandFull EXCEPT !.full_name = WithSurrogate("Zo"),
                     !.current_location = WithSurrogate("Ys")]

CandOddEmail == [CandFull EXCEPT !.email = WithSurrogate("e@f.com")]

\* (candidate_info, conversation_history) pairs passed to save, each with
\* the pair the second run passes in its place
SaveInputs ==
    { [info |-> CandFull, history |-> Transcript,
       twin |-> [info |-> CandFull2, history |-> Transcript2]],
      [info |-> CandPartial, history |-> <<>>,
       twin |-> [info |-> CandPartial2, history |-> <<>>]] }

OddSaveInputs ==
    { [info |-> CandOddName, history |-> Transcript,
       twin |-> [info |-> CandFull2, history |-> Transcript2]],
      [info |-> CandOddEmail, history |-> Transcript,
       twin |-> [info |-> CandFull2, history |-> Transcript2]] }

(***************************************************************************)
(* Files.                                                                  *)
(***************************************************************************)
NoFile == [kind |-> "none"]

\* a record file json.load or data['timestamp'] fails on
Corrupt == [kind |-> "corrupt"]

IsRecord(f) == f.kind = "record"

\* an existence test that always passes
Exists_Always(f) == TRUE

\* os.path.exists(filename)
Exists(f) == f.kind # "none"

\* a status that takes an empty transcript for a transcript
CompletionStatus_NotNone(history) ==
    IF history # None THEN "complete" ELSE "incomplete"

\* 'complete' if conversation_history else 'incomplete'
CompletionStatus(history) ==
    IF TruthyList(history) THEN "complete" ELSE "incomplete"

\* the dict save_candidate_data builds and dumps
EncryptedData(info, sid, history, timestamp) ==
    [kind |-> "record",
     session_id |-> sid,
     timestamp |-> timestamp,
     candidate_info |->
        [full_name_encrypted |->
            IF Truthy(info.full_name) THEN EncryptData(info.full_name) ELSE None,
         email_encrypted |->
            IF Truthy(info.email) THEN EncryptData(info.email) ELSE None,
         phone_encrypted |->
            IF Truthy(info.phone) THEN EncryptData(info.phone) ELSE None,
         current_location_encrypted |->
            IF Truthy(info.current_location)
            THEN EncryptData(info.current_location) ELSE None,
         years_experience |-> info.years_experience,
         desired_positions |-> info.desired_positions,
         tech_stack |-> info.tech_stack],
     privacy_hashes |->
        [email_hash |-> IF Truthy(info.email) THEN HashEmail(info.email) ELSE None,
         phone_hash |-> IF Truthy(info.phone) THEN HashPhone(info.phone) ELSE None],
     completion_status |-> CompletionStatus(history),
     \* the key 'conversation_history_encrypted' is present only with a transcript
     has_history |-> TruthyList(history),
     conversation_history_encrypted |->
        IF TruthyList(history) THEN EncryptData(JsonDumps(history)) ELSE None]

(***************************************************************************)
(* The audit log.                                                          *)
(***************************************************************************)
\* a trim that keeps the oldest entries, log_data['activities'][:1000]
TrimLog_KeepOldest(log) ==
    IF Len(log) > AuditCap THEN SubSeq(log, 1, AuditCap) ELSE log

\* log_data['activities'][-1000:] when longer than 1000
TrimLog(log) ==
    IF Len(log) > AuditCap THEN SubSeq(log, Len(log) - AuditCap + 1, Len(log)) ELSE log

\* _log_data_activity: load the log, append the entry, trim, write
LogDataActivity(log, activity, sid, metadata, t) ==
    TrimLog(Append(log, [timestamp |-> t, activity |-> activity,
                         session_id |-> sid, metadata |-> metadata]))

(***************************************************************************)
(* Export file names: export_<sid>_<YYYYmmdd_HHMMSS>.json, as token        *)
(* sequences so that str.startswith can be computed.                       *)
(***************************************************************************)
\* datetime.now().strftime('%Y%m%d_%H%M%S'): the clock cut to the second
Strftime(t) == t

ExportPattern(sid) == <<"export_">> \o sid \o <<"_">>

ExportFilename(sid, t) == ExportPattern(sid) \o <<Strftime(t)>>

\* export_file.startswith(export_pattern)
StartsWith(name, prefix) ==
    Len(name) >= Len(prefix) /\ SubSeq(name, 1, Len(prefix)) = prefix

\* writing a file replaces the file of the same name
WriteExport(files, file) == {e \in files : e.name # file.name} \cup {file}

(***************************************************************************)
(* Initial state: a store constructed on an empty data directory.          *)
(***************************************************************************)
NoInput == [saved |-> FALSE]

\* no second run is followed
NoTwin == [on |-> FALSE]

\* no calls run at the same time
NoCalls == [proc |-> <<>>, log_file |-> "ok"]

\* st.session_state before the page has run: no key set
NoSession == [session_id |-> None]

\* the state of ret before any call
NoCall == [op |-> "init", sid |-> None, ok |-> TRUE, value |-> None]

InitCommon ==
    /\ now = 0
    /\ exports = {}
    /\ ret = NoCall
    /\ injected = 0
    /\ erased = {}
    /\ calls = NoCalls
    /\ session = NoSession

\* the second run starts from the files and the log given
TwinOf(files, log) ==
    [on |-> TRUE, encrypted |-> files, activity_log |-> log, alike |-> TRUE]

\* the first store constructed on the directory has generated the key
Constructed ==
    /\ key_file = GenerateKey(1)
    /\ encryption_key = GenerateKey(1)
    /\ generated = 1
    /\ instance = 1

\* no record file and no audit log yet
EmptyDirectory ==
    /\ encrypted = [s \in SessionIds |-> NoFile]
    /\ activity_log = <<>>
    /\ budget = MaxOps
    /\ lastSaved = [s \in SessionIds |-> NoInput]

Init ==
    /\ InitCommon
    /\ Constructed
    /\ EmptyDirectory
    /\ twin = NoTwin

\* every store operation uses one step of the budget, and one fault of the
\* fault budget when a filesystem call of it raises
Step(faulty) ==
    /\ budget > 0
    /\ budget' = budget - 1
    /\ faulty => injected < MaxFaults
    /\ injected' = IF faulty THEN injected + 1 ELSE injected

(***************************************************************************)
(* The clock advances.                                                     *)
(***************************************************************************)
Tick ==
    /\ now < MaxTime
    /\ now' = now + 1
    /\ UNCHANGED <<encrypted, exports, activity_log, ret, budget, injected, lastSaved, erased>>
    /\ UNCHANGED <<storeVars, twin, calls, session>>

(***************************************************************************)
(* A record file becomes unparseable (a torn write, an edit from outside). *)
(***************************************************************************)
CorruptRecord(sid) ==
    /\ budget > 0
    /\ budget' = budget - 1
    /\ IsRecord(encrypted[sid])
    /\ encrypted' = [encrypted EXCEPT ![sid] = Corrupt]
    /\ twin' = IF twin.on
               THEN [twin EXCEPT !.encrypted[sid] = IF IsRecord(@) THEN Corrupt ELSE @]
               ELSE twin
    /\ ret' = [op |-> "corrupt", sid |-> sid, ok |-> TRUE, value |-> None]
    /\ UNCHANGED <<now, exports, activity_log, injected, lastSaved, erased>>
    /\ UNCHANGED <<storeVars, calls, session>>

(***************************************************************************)
(* save_candidate_data(candidate_info, session_id, conversation_history).  *)
(* fault names the filesystem call that raises: "open" (nothing written),  *)
(* "dump" (the file is left cut short), "chmod" (after the write), "none". *)
(***************************************************************************)
SaveFaults == {"none", "open", "dump", "chmod"}

\* a SAVE entry that records the name itself
SaveMetadata_WithName(info) ==
    [has_personal_info |-> info.full_name,
     has_contact_info |-> Truthy(info.email),
     tech_stack_count |-> IF TruthyList(info.tech_stack) THEN Len(info.tech_stack) ELSE 0]

SaveMetadata(info) ==
    [has_personal_info |-> Truthy(info.full_name),
     has_contact_info |-> Truthy(info.email),
     tech_stack_count |-> IF TruthyList(info.tech_stack) THEN Len(info.tech_stack) ELSE 0]

\* whether building the record dict raises: hash_email and hash_phone do on
\* a string that cannot be encoded
BuildRaises(info) ==
    \/ Truthy(info.email) /\ HashEmail(info.email) = Raised
    \/ Truthy(info.phone) /\ HashPhone(info.phone) = Raised

\* whether save_candidate_data returns True
SaveSucceeds(info, fault) == ~BuildRaises(info) /\ fault = "none"

\* the record file of the session after save_candidate_data
SaveWritten(file, sid, info, history, fault, t) ==
    IF BuildRaises(info) \/ fault = "open" THEN file
    ELSE IF fault = "dump" THEN Corrupt
    ELSE EncryptedData(info, sid, history, t)

\* the audit log after save_candidate_data: the SAVE entry is its last
\* statement before return True
SaveLogged(log, sid, info, fault, t) ==
    IF SaveSucceeds(info, fault)
    THEN LogDataActivity(log, "SAVE", sid, SaveMetadata(info), t)
    ELSE log

\* whether the email and phone values of two records raise alike when encoded
EncodableAlike(info1, info2) ==
    /\ (StrEncode(info1.email) = Raised) <=> (StrEncode(info2.email) = Raised)
    /\ (StrEncode(info1.phone) = Raised) <=> (StrEncode(info2.phone) = Raised)

Save(sid, inp, fault) ==
    /\ Step(fault # "none")
    /\ (BuildRaises(inp.info) \/ BuildRaises(inp.twin.info)) => fault = "none"
    /\ encrypted' = [encrypted EXCEPT ![sid] =
                        SaveWritten(@, sid, inp.info, inp.history, fault, now)]
    /\ activity_log' = SaveLogged(activity_log, sid, inp.info, fault, now)
    /\ ret' = [op |-> "save", sid |-> sid, ok |-> SaveSucceeds(inp.info, fault),
               value |-> None]
    /\ lastSaved' =
        IF SaveSucceeds(inp.info, fault)
        THEN [lastSaved EXCEPT ![sid] = [saved |-> TRUE, info |-> inp.info,
                                         history |-> inp.history,
                                         instance |-> instance]]
        ELSE lastSaved
    /\ twin' =
        IF twin.on
        THEN [twin EXCEPT
                !.encrypted[sid] = SaveWritten(@, sid, inp.twin.info, inp.twin.history,
                                               fault, now),
                !.activity_log = SaveLogged(@, sid, inp.twin.info, fault, now),
                !.alike = @ /\ EncodableAlike(inp.info, inp.twin.info)]
        ELSE twin
    /\ erased' = erased \ {sid}
    /\ UNCHANGED <<now, exports>>
    /\ UNCHANGED <<storeVars, calls, session>>

(***************************************************************************)
(* load_candidate_data(session_id).                                        *)
(***************************************************************************)
\* one field of the loaded candidate_info
DecryptField(c) == IF Truthy(c) THEN DecryptData(c) ELSE None

\* the dict load_candidate_data returns for a parsed record file
DecryptedData(f) ==
    [session_id |-> f.session_id,
     timestamp |-> f.timestamp,
     completion_status |-> f.completion_status,
     candidate_info |->
        [full_name |-> DecryptField(f.candidate_info.full_name_encrypted),
         email |-> DecryptField(f.candidate_info.email_encrypted),
         phone |-> DecryptField(f.candidate_info.phone_encrypted),
         current_location |-> DecryptField(f.candidate_info.current_location_encrypted),
         years_experience |-> f.candidate_info.years_experience,
         desired_positions |-> f.candidate_info.desired_positions,
         tech_stack |-> f.candidate_info.tech_stack],
     \* the key 'conversation_history' is present only when the file has a transcript
     has_history |-> f.has_history,
     conversation_history |->
        IF f.has_history
        THEN JsonLoads(DecryptData(f.conversation_history_encrypted))
        ELSE None]

\* whether load gets to its return statement: the file exists, parses, and
\* the decrypted transcript is JSON
LoadSucceeds(f) ==
    /\ IsRecord(f)
    /\ f.has_history => IsJson(DecryptData(f.conversation_history_encrypted))

\* a load that writes its LOAD entry before it looks for the record file
LoadLogged_Eager(files, log, sid, t) == LogDataActivity(log, "LOAD", sid, <<>>, t)

\* the audit log after load_candidate_data(sid) on the record files given
LoadLogged(files, log, sid, t) ==
    IF LoadSucceeds(files[sid]) THEN LogDataActivity(log, "LOAD", sid, <<>>, t) ELSE log

Load(sid) ==
    /\ Step(FALSE)
    /\ twin' = IF twin.on
               THEN [twin EXCEPT !.activity_log = LoadLogged(twin.encrypted, @, sid, now)]
               ELSE twin
    /\ activity_log' = LoadLogged(encrypted, activity_log, sid, now)
    /\ ret' = IF LoadSucceeds(encrypted[sid])
              THEN [op |-> "load", sid |-> sid, ok |-> TRUE,
                    value |-> DecryptedData(encrypted[sid])]
              ELSE [op |-> "load", sid |-> sid, ok |-> FALSE, value |-> None]
    /\ UNCHANGED <<now, encrypted, exports, lastSaved, erased>>
    /\ UNCHANGED <<storeVars, calls, session>>

(***************************************************************************)
(* export_candidate_data(session_id). It reads the record through load,    *)
(* which appends its LOAD entry. fault: "open" (no file is written),       *)
(* "dump" (the export file is left cut short), "none".                     *)
(***************************************************************************)
ExportFaults == {"none", "open", "dump"}

\* the export file written for the loaded data at time t
ExportData(data, sid, t, complete) ==
    [name |-> ExportFilename(sid, t),
     mtime |-> t,
     complete |-> complete,
     session_id |-> sid,
     personal_information |-> data.candidate_info,
     total_messages |-> IF data.has_history THEN Len(data.conversation_history) ELSE 0,
     completion_status |-> data.completion_status]

\* an export that reads the record file itself, not through load
ExportLogged_Direct(files, log, sid, fault, t) ==
    IF LoadSucceeds(files[sid]) /\ fault = "none"
    THEN LogDataActivity(log, "EXPORT", sid, [format |-> "json"], t)
    ELSE log

\* the audit log after export_candidate_data(sid) on the record files given
ExportLogged(files, log, sid, fault, t) ==
    IF LoadSucceeds(files[sid]) /\ fault = "none"
    THEN LogDataActivity(LoadLogged(files, log, sid, t), "EXPORT", sid,
                         [format |-> "json"], t)
    ELSE LoadLogged(files, log, sid, t)

Export(sid, fault) ==
    /\ Step(fault # "none")
    /\ twin' = IF twin.on
               THEN [twin EXCEPT !.activity_log =
                        ExportLogged(twin.encrypted, @, sid, fault, now)]
               ELSE twin
    /\ activity_log' = ExportLogged(encrypted, activity_log, sid, fault, now)
    /\ IF LoadSucceeds(encrypted[sid])
       THEN LET data == DecryptedData(encrypted[sid])
            IN  /\ exports' =
                    CASE fault = "open" -> exports
                      [] fault = "dump" ->
                            WriteExport(exports, ExportData(data, sid, now, FALSE))
                      [] OTHER ->
                            WriteExport(exports, ExportData(data, sid, now, TRUE))
                /\ ret' = [op |-> "export", sid |-> sid, ok |-> (fault = "none"),
                           value |-> IF fault = "none"
                                     THEN ExportFilename(sid, now) ELSE None]
       ELSE /\ fault = "none"
            /\ ret' = [op |-> "export", sid |-> sid, ok |-> FALSE, value |-> None]
            /\ UNCHANGED exports
    /\ UNCHANGED <<now, encrypted, lastSaved, erased>>
    /\ UNCHANGED <<storeVars, calls, session>>

(***************************************************************************)
(* delete_candidate_data(session_id, reason). The statements after the     *)
(* existence test run in DeleteSteps order; the first one that raises ends *)
(* the call with False, keeping what the earlier ones did.                 *)
(* fault: [at |-> "none"], [at |-> "remove_record"] (os.remove of the      *)
(* record raises), [at |-> "remove_exports", done |-> D] (os.listdir of    *)
(* the exports directory raises, or the loop does after removing D).       *)
(***************************************************************************)
\* a delete that writes its audit entry last
DeleteSteps_LogLast == <<"remove_record", "remove_exports", "log">>

DeleteSteps == <<"log", "remove_record", "remove_exports">>

\* the export files delete removes for sid
ExportMatches(e, sid) == StartsWith(e.name, ExportPattern(sid))

DeleteFaults(sid) ==
    LET matches == {e \in exports : ExportMatches(e, sid)}
    IN  {[at |-> "none"], [at |-> "remove_record"]}
        \cup { [at |-> "remove_exports", done |-> D] :
                D \in {X \in SUBSET matches : X # matches \/ matches = {}} }

\* a delete that leaves the record file in place
DeleteStep_KeepsRecord(step, st, sid, reason, t) ==
    CASE step = "log" ->
            [st EXCEPT !.log = LogDataActivity(@, "DELETE", sid, [reason |-> reason], t)]
      [] step = "remove_record" -> st
      [] step = "remove_exports" ->
            [st EXCEPT !.exports = {e \in @ : ~ExportMatches(e, sid)}]

\* one statement of delete on the state st = [encrypted, exports, log]
DeleteStep(step, st, sid, reason, t) ==
    CASE step = "log" ->
            [st EXCEPT !.log = LogDataActivity(@, "DELETE", sid, [reason |-> reason], t)]
      [] step = "remove_record" ->
            [st EXCEPT !.encrypted = [@ EXCEPT ![sid] = NoFile]]
      [] step = "remove_exports" ->
            [st EXCEPT !.exports = {e \in @ : ~ExportMatches(e, sid)}]

\* what the raising statement did before it raised
DeleteStepFailed(step, st, fault) ==
    IF step = "remove_exports"
    THEN [st EXCEPT !.exports = @ \ fault.done]
    ELSE st

RECURSIVE RunDelete(_, _, _, _, _, _)
RunDelete(steps, st, sid, reason, t, fault) ==
    IF steps = <<>> THEN [st |-> st, ok |-> TRUE]
    ELSE IF fault.at = Head(steps)
         THEN [st |-> DeleteStepFailed(Head(steps), st, fault), ok |-> FALSE]
         ELSE RunDelete(Tail(steps), DeleteStep(Head(steps), st, sid, reason, t),
                        sid, reason, t, fault)

\* delete_candidate_data on the record files and the audit log of the second
\* run, whose export files are not followed
TwinDelete(sid, reason, fault, t) ==
    IF twin.on /\ Exists(twin.encrypted[sid])
    THEN LET r == RunDelete(DeleteSteps,
                            [encrypted |-> twin.encrypted, exports |-> {},
                             log |-> twin.activity_log],
                            sid, reason, t, [at |-> fault.at, done |-> {}])
         IN  [twin EXCEPT !.encrypted = r.st.encrypted, !.activity_log = r.st.log]
    ELSE twin

Delete(sid, reason, fault) ==
    /\ Step(fault.at # "none")
    /\ twin' = TwinDelete(sid, reason, fault, now)
    /\ IF Exists(encrypted[sid])
       THEN LET r == RunDelete(DeleteSteps,
                               [encrypted |-> encrypted, exports |-> exports,
                                log |-> activity_log],
                               sid, reason, now, fault)
            IN  /\ encrypted' = r.st.encrypted
                /\ exports' = r.st.exports
                /\ activity_log' = r.st.log
                /\ ret' = [op |-> "delete", sid |-> sid, ok |-> r.ok, value |-> None]
                /\ erased' = IF r.ok THEN erased \cup {sid} ELSE erased
       ELSE /\ fault.at = "none"
            /\ ret' = [op |-> "delete", sid |-> sid, ok |-> FALSE, value |-> None]
            /\ UNCHANGED <<encrypted, exports, activity_log, erased>>
    /\ UNCHANGED <<now, lastSaved>>
    /\ UNCHANGED <<storeVars, calls, session>>

(***************************************************************************)
(* cleanup_old_data(retention_days): the retention sweep. order is the     *)
(* order in which os.listdir yields the record files.                      *)
(* fault: stuck, the record files whose os.remove raises (caught per       *)
(* file); exports_fail and done, whether the loop over the exports         *)
(* directory raises and the files it removed before (caught at the end).   *)
(***************************************************************************)
\* timedelta(days=retention_days) back from now
CutoffDate(t, retention_days) == t - retention_days * DayLen

\* a sweep that also takes the records exactly at the cutoff
IsExpired_Inclusive(file_date, cutoff_date) == file_date <= cutoff_date

\* file_date < cutoff_date
IsExpired(file_date, cutoff_date) == file_date < cutoff_date

\* (datetime.now() - file_date).days
FileAgeDays(t, file_date) == (t - file_date) \div DayLen

\* the orders in which a directory listing can yield the record files
ListingOrders ==
    {o \in [1..Cardinality(SessionIds) -> SessionIds] :
        \A i, j \in DOMAIN o : o[i] = o[j] => i = j}

NoSweepFault == [stuck |-> {}, exports_fail |-> FALSE, done |-> {}]

SweepFaults(cutoff) ==
    { [stuck |-> S, exports_fail |-> FALSE, done |-> {}] :
        S \in SUBSET {sid \in SessionIds :
                        /\ IsRecord(encrypted[sid])
                        /\ IsExpired(encrypted[sid].timestamp, cutoff)} }
    \cup { [stuck |-> {}, exports_fail |-> TRUE, done |-> D] :
            D \in UNION { SUBSET ({e \in exports : IsExpired(e.mtime, cutoff)} \ {f}) :
                            f \in exports } }

\* a sweep that writes the AUTO_DELETE entry after it has removed the file
RECURSIVE SweepRecords_LogAfter(_, _, _, _, _, _)
SweepRecords_LogAfter(order, st, cutoff, retention_days, t, stuck) ==
    IF order = <<>> THEN st
    ELSE LET sid == Head(order)
             f == st.encrypted[sid]
             logged == LogDataActivity(st.log, "AUTO_DELETE", f.session_id,
                          [retention_days |-> retention_days,
                           file_age_days |-> FileAgeDays(t, f.timestamp)], t)
             next ==
                IF IsRecord(f) /\ IsExpired(f.timestamp, cutoff) /\ sid \notin stuck
                THEN [encrypted |-> [st.encrypted EXCEPT ![sid] = NoFile],
                      log |-> logged,
                      deleted_count |-> st.deleted_count + 1]
                ELSE st
         IN  SweepRecords_LogAfter(Tail(order), next, cutoff, retention_days, t, stuck)

\* the loop over the record files, on st = [encrypted, log, deleted_count]
RECURSIVE SweepRecords(_, _, _, _, _, _)
SweepRecords(order, st, cutoff, retention_days, t, stuck) ==
    IF order = <<>> THEN st
    ELSE LET sid == Head(order)
             f == st.encrypted[sid]
             logged == LogDataActivity(st.log, "AUTO_DELETE", f.session_id,
                          [retention_days |-> retention_days,
                           file_age_days |-> FileAgeDays(t, f.timestamp)], t)
             next ==
                IF IsRecord(f) /\ IsExpired(f.timestamp, cutoff)
                THEN IF sid \in stuck
                     THEN [st EXCEPT !.log = logged]
                     ELSE [encrypted |-> [st.encrypted EXCEPT ![sid] = NoFile],
                           log |-> logged,
                           deleted_count |-> st.deleted_count + 1]
                ELSE st
         IN  SweepRecords(Tail(order), next, cutoff, retention_days, t, stuck)

\* a sweep that removes the export files of the records it removes
SweepExports_OfSweptRecords(files, cutoff) ==
    {e \in files : ~(/\ IsRecord(encrypted[e.session_id])
                     /\ IsExpired(encrypted[e.session_id].timestamp, cutoff))}

\* the loop over the exports directory: the export files that are left,
\* st_mtime deciding
SweepExports(files, cutoff) == {e \in files : ~IsExpired(e.mtime, cutoff)}

\* cleanup_old_data on the record files and the audit log of the second run
TwinSweep(retention_days, order, fault, t) ==
    LET r == SweepRecords(order,
                          [encrypted |-> twin.encrypted, log |-> twin.activity_log,
                           deleted_count |-> 0],
                          CutoffDate(t, retention_days), retention_days, t, fault.stuck)
    IN  IF twin.on
        THEN [twin EXCEPT !.encrypted = r.encrypted, !.activity_log = r.log]
        ELSE twin

Sweep(retention_days, order, fault) ==
    /\ Step(fault # NoSweepFault)
    /\ twin' = TwinSweep(retention_days, order, fault, now)
    /\ LET cutoff == CutoffDate(now, retention_days)
           r == SweepRecords(order,
                             [encrypted |-> encrypted, log |-> activity_log,
                              deleted_count |-> 0],
                             cutoff, retention_days, now, fault.stuck)
       IN  /\ encrypted' = r.encrypted
           /\ activity_log' = r.log
           /\ exports' =
                IF fault.exports_fail
                THEN exports \ fault.done
                ELSE SweepExports(exports, cutoff)
           /\ ret' = [op |-> "sweep", sid |-> None, ok |-> TRUE,
                      value |-> r.deleted_count,
                      retention_days |-> retention_days, cutoff |-> cutoff]
    /\ UNCHANGED <<now, lastSaved, erased>>
    /\ UNCHANGED <<storeVars, calls, session>>

(***************************************************************************)
(* get_privacy_report(). It lists the record files, reads the timestamp of *)
(* those that parse, and reads the audit log; it writes nothing.           *)
(***************************************************************************)
\* datetime.isoformat()
IsoFormat(d) == <<"iso", d>>

\* log[-n:]
LastN(log, n) == IF Len(log) > n THEN SubSeq(log, Len(log) - n + 1, Len(log)) ELSE log

\* the files of the listing: every record file, parseable or not
ListedRecords(files) == {sid \in SessionIds : Exists(files[sid])}

\* dates: the timestamps of the record files that parse
RecordDates(files) == {files[sid].timestamp : sid \in {x \in SessionIds : IsRecord(files[x])}}

MinDate(dates) == CHOOSE d \in dates : \A x \in dates : d <= x

MaxDate(dates) == CHOOSE d \in dates : \A x \in dates : d >= x

\* a report that gives up at the first record file that does not parse
PrivacyReport_Aborting(files, log, t) ==
    IF \E sid \in SessionIds : files[sid] = Corrupt
    THEN [error |-> "unparseable"]
    ELSE [generated_at |-> IsoFormat(t),
          data_summary |->
            [total_records |-> Cardinality(ListedRecords(files)),
             encrypted_records |-> Cardinality(ListedRecords(files)),
             oldest_record |-> IF RecordDates(files) # {}
                               THEN IsoFormat(MinDate(RecordDates(files))) ELSE None,
             newest_record |-> IF RecordDates(files) # {}
                               THEN IsoFormat(MaxDate(RecordDates(files))) ELSE None],
          compliance_status |->
            [encryption_enabled |-> TRUE, retention_policy_active |-> TRUE,
             audit_logging_enabled |-> TRUE, gdpr_compliant |-> TRUE],
          recent_activities |-> LastN(log, RecentCount)]

\* a report that names the candidates of the records it counts
PrivacyReport_WithNames(files, log, t) ==
    [generated_at |-> IsoFormat(t),
     data_summary |->
        [total_records |-> Cardinality(ListedRecords(files)),
         encrypted_records |-> Cardinality(ListedRecords(files)),
         oldest_record |-> IF RecordDates(files) # {}
                           THEN IsoFormat(MinDate(RecordDates(files))) ELSE None,
         newest_record |-> IF RecordDates(files) # {}
                           THEN IsoFormat(MaxDate(RecordDates(files))) ELSE None],
     compliance_status |->
        [encryption_enabled |-> TRUE, retention_policy_active |-> TRUE,
         audit_logging_enabled |-> TRUE, gdpr_compliant |-> TRUE],
     recent_activities |-> LastN(log, RecentCount),
     candidates |-> {DecryptField(files[sid].candidate_info.full_name_encrypted) :
                        sid \in {x \in SessionIds : IsRecord(files[x])}}]

\* the dict get_privacy_report returns
PrivacyReport(files, log, t) ==
    [generated_at |-> IsoFormat(t),
     data_summary |->
        [total_records |-> Cardinality(ListedRecords(files)),
         encrypted_records |-> Cardinality(ListedRecords(files)),
         oldest_record |-> IF RecordDates(files) # {}
                           THEN IsoFormat(MinDate(RecordDates(files))) ELSE None,
         newest_record |-> IF RecordDates(files) # {}
                           THEN IsoFormat(MaxDate(RecordDates(files))) ELSE None],
     compliance_status |->
        [encryption_enabled |-> TRUE, retention_policy_active |-> TRUE,
         audit_logging_enabled |-> TRUE, gdpr_compliant |-> TRUE],
     recent_activities |-> LastN(log, RecentCount)]

Report ==
    /\ Step(FALSE)
    /\ ret' = [op |-> "report", sid |-> None, ok |-> TRUE,
               value |-> PrivacyReport(encrypted, activity_log, now)]
    /\ UNCHANGED <<now, encrypted, exports, activity_log, lastSaved, erased>>
    /\ UNCHANGED <<storeVars, twin, calls, session>>

(***************************************************************************)
(* Specifications.                                                         *)
(* Spec: the filesystem calls of the store succeed (record files can       *)
(* still be found corrupt).                                                *)
(* SpecIO: any filesystem call on a record or export file may raise.       *)
(* SpecAged: as Spec, from a store whose audit log is one entry short of   *)
(* its cap.                                                                *)
(***************************************************************************)
Reasons == {"user_request"}

RetentionDays == 0..MaxRetention

Next ==
    \/ Tick
    \/ \E sid \in SessionIds : CorruptRecord(sid)
    \/ \E sid \in SessionIds, inp \in SaveInputs : Save(sid, inp, "none")
    \/ \E sid \in SessionIds : Load(sid)
    \/ \E sid \in SessionIds : Export(sid, "none")
    \/ \E sid \in SessionIds, reason \in Reasons : Delete(sid, reason, [at |-> "none"])
    \/ \E d \in RetentionDays, order \in ListingOrders : Sweep(d, order, NoSweepFault)

Spec == Init /\ [][Next]_vars

NextIO ==
    \/ Tick
    \/ \E sid \in SessionIds : CorruptRecord(sid)
    \/ \E sid \in SessionIds, inp \in SaveInputs, fault \in SaveFaults :
            Save(sid, inp, fault)
    \/ \E sid \in SessionIds : Load(sid)
    \/ \E sid \in SessionIds, fault \in ExportFaults : Export(sid, fault)
    \/ \E sid \in SessionIds, reason \in Reasons :
            \E fault \in DeleteFaults(sid) : Delete(sid, reason, fault)
    \/ \E d \in RetentionDays, order \in ListingOrders :
            \E fault \in SweepFaults(CutoffDate(now, d)) : Sweep(d, order, fault)

SpecIO == Init /\ [][NextIO]_vars

\* the log after a save followed by loads and saves of session a in turn
AgedLog ==
    [i \in 1..(AuditCap - 1) |->
        IF i % 2 = 1
        THEN [timestamp |-> 0, activity |-> "SAVE", session_id |-> SidA,
              metadata |-> SaveMetadata(CandFull)]
        ELSE [timestamp |-> 0, activity |-> "LOAD", session_id |-> SidA,
              metadata |-> <<>>]]

InitAged ==
    /\ InitCommon
    /\ Constructed
    /\ encrypted = [s \in SessionIds |->
                      IF s = SidA THEN EncryptedData(CandFull, SidA, None, 0)
                      ELSE NoFile]
    /\ activity_log = AgedLog
    /\ budget = MaxAgedOps
    /\ lastSaved = [s \in SessionIds |->
                      IF s = SidA
                      THEN [saved |-> TRUE, info |-> CandFull, history |-> None,
                            instance |-> 1]
                      ELSE NoInput]
    /\ twin = NoTwin

SpecAged == InitAged /\ [][Next]_vars

(***************************************************************************)
(* SpecReport: as Spec without delete and sweep, with get_privacy_report,  *)
(* from an empty directory or from a store that has saved session a and    *)
(* has one audit entry more than a report shows.                           *)
(***************************************************************************)
InitBusy ==
    /\ InitCommon
    /\ Constructed
    /\ encrypted = [s \in SessionIds |->
                      IF s = SidA THEN EncryptedData(CandFull, SidA, None, 0)
                      ELSE NoFile]
    /\ activity_log = SubSeq(AgedLog, 1, RecentCount + 1)
    /\ budget = MaxOps
    /\ lastSaved = [s \in SessionIds |->
                      IF s = SidA
                      THEN [saved |-> TRUE, info |-> CandFull, history |-> None,
                            instance |-> 1]
                      ELSE NoInput]
    /\ twin = NoTwin

NextReport ==
    \/ Tick
    \/ \E sid \in SessionIds : CorruptRecord(sid)
    \/ \E sid \in SessionIds, inp \in SaveInputs : Save(sid, inp, "none")
    \/ \E sid \in SessionIds : Load(sid)
    \/ \E sid \in SessionIds : Export(sid, "none")
    \/ Report

SpecReport == (Init \/ InitBusy) /\ [][NextReport]_vars

(***************************************************************************)
(* SpecBusy: as Spec, from the store that has saved session a.             *)
(***************************************************************************)
SpecBusy == InitBusy /\ [][Next]_vars

(***************************************************************************)
(* SpecKeys: stores are constructed one after the other on a data          *)
(* directory that is empty at first; saves and loads go through the store  *)
(* constructed last.                                                       *)
(***************************************************************************)
\* DataHandler(data_dir)
Construct ==
    /\ instance < MaxStores
    /\ LET r == GetOrCreateEncryptionKey(key_file, generated)
       IN  /\ key_file' = r.file
           /\ encryption_key' = r.key
           /\ generated' = r.generated
    /\ instance' = instance + 1
    /\ ret' = [op |-> "construct", sid |-> None, ok |-> TRUE, value |-> None]
    /\ UNCHANGED <<now, encrypted, exports, activity_log, budget, injected,
                   lastSaved, erased, twin, calls, session>>

InitKeys ==
    /\ InitCommon
    /\ key_file = NoKeyFile
    /\ encryption_key = NoStore
    /\ generated = 0
    /\ instance = 0
    /\ EmptyDirectory
    /\ twin = NoTwin

NextKeys ==
    \/ Construct
    \/ instance > 0 /\ \E sid \in SessionIds, inp \in SaveInputs : Save(sid, inp, "none")
    \/ instance > 0 /\ \E sid \in SessionIds : Load(sid)

SpecKeys == InitKeys /\ [][NextKeys]_vars

(***************************************************************************)
(* SpecTamper: a ciphertext of a stored record stops being decryptable     *)
(* under the key of the store: a character of it is changed on disk, or    *)
(* the record comes from a store that had another key.                     *)
(***************************************************************************)
EncryptedFields ==
    {"full_name_encrypted", "email_encrypted", "phone_encrypted",
     "current_location_encrypted"}

\* the ciphertext c made undecryptable
Undecryptable(c, how) ==
    CASE how = "tampered" -> Tampered(c)
      [] how = "foreign" -> CipherEncrypt(ForeignKey, c[3])

TamperRecord(sid, part, how) ==
    /\ budget > 0
    /\ budget' = budget - 1
    /\ IsRecord(encrypted[sid])
    /\ IF part = "conversation_history_encrypted"
       THEN /\ IsToken(encrypted[sid].conversation_history_encrypted)
            /\ encrypted' = [encrypted EXCEPT ![sid].conversation_history_encrypted =
                                Undecryptable(@, how)]
       ELSE /\ IsToken(encrypted[sid].candidate_info[part])
            /\ encrypted' = [encrypted EXCEPT ![sid].candidate_info[part] =
                                Undecryptable(@, how)]
    /\ ret' = [op |-> "tamper", sid |-> sid, ok |-> TRUE, value |-> None]
    /\ UNCHANGED <<now, exports, activity_log, injected, lastSaved, erased>>
    /\ UNCHANGED <<storeVars, twin, calls, session>>

NextTamper ==
    \/ \E sid \in SessionIds, inp \in SaveInputs : Save(sid, inp, "none")
    \/ \E sid \in SessionIds : Load(sid)
    \/ \E sid \in SessionIds,
          part \in EncryptedFields \cup {"conversation_history_encrypted"},
          how \in {"tampered", "foreign"} : TamperRecord(sid, part, how)

SpecTamper == Init /\ [][NextTamper]_vars

(***************************************************************************)
(* SpecOdd: as Spec without corrupted files, with records whose name and   *)
(* location, or email, cannot be encoded among those passed to save, and   *)
(* with the second run followed.                                           *)
(***************************************************************************)
InitOdd ==
    /\ InitCommon
    /\ Constructed
    /\ EmptyDirectory
    /\ twin = TwinOf(encrypted, activity_log)

NextOdd ==
    \/ Tick
    \/ \E sid \in SessionIds, inp \in SaveInputs \cup OddSaveInputs :
            Save(sid, inp, "none")
    \/ \E sid \in SessionIds : Load(sid)
    \/ \E sid \in SessionIds : Export(sid, "none")
    \/ \E sid \in SessionIds, reason \in Reasons : Delete(sid, reason, [at |-> "none"])
    \/ \E d \in RetentionDays, order \in ListingOrders : Sweep(d, order, NoSweepFault)

SpecOdd == InitOdd /\ [][NextOdd]_vars

(***************************************************************************)
(* SpecSaves: saves, whose filesystem calls may raise, and loads only.     *)
(***************************************************************************)
NextSaves ==
    \/ \E sid \in SessionIds, inp \in SaveInputs \cup OddSaveInputs, fault \in SaveFaults :
            Save(sid, inp, fault)
    \/ \E sid \in SessionIds : Load(sid)

SpecSaves == Init /\ [][NextSaves]_vars

(***************************************************************************)
(* SpecCipher: _encrypt_data and _decrypt_data called on their own, on     *)
(* the strings and ciphertexts below, by a store with its key.             *)
(***************************************************************************)
\* strings passed to _encrypt_data
Plaintexts ==
    { PyStr("Ann Lee"), PyStr("a@b.com"), PyStr("555-123-4567"), PyStr("Pune"),
      PyStr(""), PyStr(" "), WithSurrogate("Zo"), JsonDumps(Transcript),
      CipherEncrypt(GenerateKey(1), StrEncode(PyStr("Ann Lee"))) }

\* how a ciphertext handed to _decrypt_data came about
Origins == {"own", "foreign", "tampered", "corrupt"}

\* the ciphertext of origin how that belongs to the string x
Ciphertext(x, how) ==
    CASE how = "own" -> EncryptData(x)
      [] how = "foreign" -> CipherEncrypt(ForeignKey, StrEncode(x))
      [] how = "tampered" -> Tampered(EncryptData(x))
      [] how = "corrupt" -> x

EncryptCall(x) ==
    /\ Step(FALSE)
    /\ ret' = [op |-> "encrypt", sid |-> None, ok |-> TRUE, arg |-> x,
               value |-> EncryptData(x)]
    /\ UNCHANGED <<now, encrypted, exports, activity_log, lastSaved, erased>>
    /\ UNCHANGED <<storeVars, twin, calls, session>>

DecryptCall(x, how) ==
    /\ Step(FALSE)
    /\ how = "foreign" => StrEncode(x) # Raised
    /\ how = "corrupt" => ~IsToken(x)
    /\ ret' = [op |-> "decrypt", sid |-> None, ok |-> TRUE, arg |-> Ciphertext(x, how),
               value |-> DecryptData(Ciphertext(x, how)), plain |-> x, how |-> how]
    /\ UNCHANGED <<now, encrypted, exports, activity_log, lastSaved, erased>>
    /\ UNCHANGED <<storeVars, twin, calls, session>>

NextCipher ==
    \/ \E x \in Plaintexts : EncryptCall(x)
    \/ \E x \in Plaintexts, how \in Origins : DecryptCall(x, how)

SpecCipher == Init /\ [][NextCipher]_vars

(***************************************************************************)
(* SpecRace: for each session a save_candidate_data and a                  *)
(* delete_candidate_data run at the same time (threads or processes on one *)
(* data directory, POSIX file semantics), on a directory that holds a      *)
(* record of each session. A step is one filesystem call of one call: the  *)
(* store takes no lock. Each call has a position pc and its local          *)
(* variables: data (the dict save dumps), entry and log_data (of           *)
(* _log_data_activity), logged (what became of its audit entry) and        *)
(* unlinked_at (history: where save was when its file was removed).        *)
(* calls.log_file tells whether the audit log file holds what was dumped   *)
(* last ("ok"), is empty after an open with mode w ("truncated"), or holds *)
(* the bytes of two dumps laid over each other ("garbled").                *)
(***************************************************************************)
SavePid(sid) == <<"save", sid>>

DeletePid(sid) == <<"delete", sid>>

Procs == {SavePid(sid) : sid \in SessionIds} \cup {DeletePid(sid) : sid \in SessionIds}

\* the entry _log_data_activity is called with, without its timestamp
LogEntryOf(activity, sid, metadata) ==
    [activity |-> activity, session_id |-> sid, metadata |-> metadata]

\* a call that has not started
NotStarted(entry) ==
    [pc |-> "start", ok |-> FALSE, data |-> NoFile, entry |-> entry,
     log_data |-> <<>>, logged |-> "no", unlinked_at |-> "never"]

\* the audit log after save(CandFull, a, Transcript) and save(CandPartial, a_b)
RaceLog ==
    LogDataActivity(
        LogDataActivity(<<>>, "SAVE", SidA, SaveMetadata(CandFull), 0),
        "SAVE", SidAB, SaveMetadata(CandPartial), 0)

\* what the save of a session is called with: not what its record holds
RaceInput(sid) ==
    CHOOSE inp \in SaveInputs : (inp.info = CandFull) <=> (sid # SidA)

\* the store after those two saves
InitRace ==
    /\ now = 0
    /\ exports = {}
    /\ ret = NoCall
    /\ injected = 0
    /\ erased = {}
    /\ Constructed
    /\ encrypted = [s \in SessionIds |->
                      IF s = SidA THEN EncryptedData(CandFull, s, Transcript, 0)
                      ELSE EncryptedData(CandPartial, s, <<>>, 0)]
    /\ activity_log = RaceLog
    /\ budget = MaxOps
    /\ lastSaved = [s \in SessionIds |->
                      IF s = SidA
                      THEN [saved |-> TRUE, info |-> CandFull, history |-> Transcript,
                            instance |-> 1]
                      ELSE [saved |-> TRUE, info |-> CandPartial, history |-> <<>>,
                            instance |-> 1]]
    /\ twin = NoTwin
    /\ session = NoSession
    /\ calls =
        [proc |-> [p \in Procs |->
                    IF p[1] = "save"
                    THEN NotStarted(None)
                    ELSE NotStarted(LogEntryOf("DELETE", p[2],
                                               [reason |-> "user_request"]))],
         log_file |-> "ok"]

\* what the steps of concurrent calls leave alone
raceFrame == <<now, ret, budget, injected, lastSaved, erased, storeVars, twin, session>>

\* save: the record dict is built and open(filename, 'w') creates the file
\* or cuts it to length 0
SaveOpen(sid, inp) ==
    LET c == calls.proc[SavePid(sid)]
    IN  /\ c.pc = "start"
        /\ ~BuildRaises(inp.info)
        /\ encrypted' = [encrypted EXCEPT ![sid] = Corrupt]
        /\ calls' = [calls EXCEPT !.proc[SavePid(sid)] =
                        [c EXCEPT !.pc = "dump",
                                  !.data = EncryptedData(inp.info, sid, inp.history, now),
                                  !.entry = LogEntryOf("SAVE", sid, SaveMetadata(inp.info))]]
        /\ UNCHANGED <<exports, activity_log, raceFrame>>

\* save: json.dump and the close of the file. The bytes go to the file
\* opened, which is no longer the file of that name when it was removed
\* in between
SaveDump(sid) ==
    LET c == calls.proc[SavePid(sid)]
    IN  /\ c.pc = "dump"
        /\ encrypted' = IF c.unlinked_at = "dump"
                         THEN encrypted
                         ELSE [encrypted EXCEPT ![sid] = c.data]
        /\ calls' = [calls EXCEPT !.proc[SavePid(sid)].pc = "chmod"]
        /\ UNCHANGED <<exports, activity_log, raceFrame>>

\* a chmod that passes on a missing file
ChmodRaises_Never(f) == FALSE

\* os.chmod(filename, 0o600): FileNotFoundError when there is no such file
ChmodRaises(f) == ~Exists(f)

\* save: os.chmod; when it raises, the except clause returns False
SaveChmod(sid) ==
    LET c == calls.proc[SavePid(sid)]
    IN  /\ c.pc = "chmod"
        /\ calls' = [calls EXCEPT !.proc[SavePid(sid)] =
                        IF ChmodRaises(encrypted[sid])
                        THEN [c EXCEPT !.pc = "done", !.ok = FALSE]
                        ELSE [c EXCEPT !.pc = "log_load"]]
        /\ UNCHANGED <<encrypted, exports, activity_log, raceFrame>>

\* the call after its _log_data_activity has returned: save returns True,
\* delete goes on to remove the record file
AfterLog(p, c) ==
    IF p[1] = "save" THEN [c EXCEPT !.pc = "done", !.ok = TRUE]
    ELSE [c EXCEPT !.pc = "remove"]

\* a json.load of the log file that takes the log for empty
LoadLog_Empty(log) == <<>>

\* json.load(f)['activities']
LoadLog(log) == log

\* _log_data_activity: the log file is read. json.load raises on a file
\* that is empty or garbled; the except clause prints and returns, and the
\* entry is not written
LogLoad(p) ==
    LET c == calls.proc[p]
    IN  /\ c.pc = "log_load"
        /\ calls' = [calls EXCEPT !.proc[p] =
                        IF calls.log_file = "ok"
                        THEN [c EXCEPT !.pc = "log_open", !.log_data = LoadLog(activity_log)]
                        ELSE AfterLog(p, [c EXCEPT !.logged = "dropped"])]
        /\ UNCHANGED <<encrypted, exports, activity_log, raceFrame>>

\* _log_data_activity: open(log_file, 'w') cuts the file to length 0
LogOpen(p) ==
    LET c == calls.proc[p]
    IN  /\ c.pc = "log_open"
        /\ activity_log' = <<>>
        /\ calls' = [calls EXCEPT !.proc[p].pc = "log_dump", !.log_file = "truncated"]
        /\ UNCHANGED <<encrypted, exports, raceFrame>>

\* _log_data_activity: json.dump of the loaded log with the entry appended,
\* written from offset 0. On a file another call has dumped to since this
\* call opened it, the longer of the two dumps decides: the file holds this
\* dump, or this dump followed by the rest of the other (garbled)
LogDump(p, garbled) ==
    LET c == calls.proc[p]
    IN  /\ c.pc = "log_dump"
        /\ garbled => calls.log_file # "truncated"
        /\ activity_log' =
                IF garbled THEN <<>>
                ELSE LogDataActivity(c.log_data, c.entry.activity, c.entry.session_id,
                                     c.entry.metadata, now)
        /\ calls' = [calls EXCEPT
                        !.proc[p] = AfterLog(p, [c EXCEPT !.logged = "written"]),
                        !.log_file = IF garbled THEN "garbled" ELSE "ok"]
        /\ UNCHANGED <<encrypted, exports, raceFrame>>

\* delete: os.path.exists(filename); return False when there is no file
DeleteExists(sid) ==
    LET c == calls.proc[DeletePid(sid)]
    IN  /\ c.pc = "start"
        /\ calls' = [calls EXCEPT !.proc[DeletePid(sid)] =
                        IF Exists(encrypted[sid])
                        THEN [c EXCEPT !.pc = "log_load"]
                        ELSE [c EXCEPT !.pc = "done", !.ok = FALSE]]
        /\ UNCHANGED <<encrypted, exports, activity_log, raceFrame>>

\* delete: os.remove(filename)
DeleteRemove(sid) ==
    LET c == calls.proc[DeletePid(sid)]
        st == DeleteStep("remove_record",
                         [encrypted |-> encrypted, exports |-> exports,
                          log |-> activity_log],
                         sid, "user_request", now)
    IN  /\ c.pc = "remove"
        /\ IF Exists(encrypted[sid])
           THEN /\ encrypted' = st.encrypted
                /\ calls' = [calls EXCEPT
                                !.proc[DeletePid(sid)].pc = "exports",
                                !.proc[SavePid(sid)].unlinked_at =
                                    calls.proc[SavePid(sid)].pc]
           ELSE /\ calls' = [calls EXCEPT !.proc[DeletePid(sid)] =
                                [c EXCEPT !.pc = "done", !.ok = FALSE]]
                /\ UNCHANGED encrypted
        /\ UNCHANGED <<exports, activity_log, raceFrame>>

\* delete: the export files of the session are removed; return True
DeleteExports(sid) ==
    LET c == calls.proc[DeletePid(sid)]
        st == DeleteStep("remove_exports",
                         [encrypted |-> encrypted, exports |-> exports,
                          log |-> activity_log],
                         sid, "user_request", now)
    IN  /\ c.pc = "exports"
        /\ exports' = st.exports
        /\ calls' = [calls EXCEPT !.proc[DeletePid(sid)] =
                        [c EXCEPT !.pc = "done", !.ok = TRUE]]
        /\ UNCHANGED <<encrypted, activity_log, raceFrame>>

NextRace ==
    \/ \E sid \in SessionIds : SaveOpen(sid, RaceInput(sid))
    \/ \E sid \in SessionIds : SaveDump(sid)
    \/ \E sid \in SessionIds : SaveChmod(sid)
    \/ \E p \in Procs : LogLoad(p)
    \/ \E p \in Procs : LogOpen(p)
    \/ \E p \in Procs, garbled \in BOOLEAN : LogDump(p, garbled)
    \/ \E sid \in SessionIds : DeleteExists(sid)
    \/ \E sid \in SessionIds : DeleteRemove(sid)
    \/ \E sid \in SessionIds : DeleteExports(sid)

SpecRace == InitRace /\ [][NextRace]_vars

(***************************************************************************)
(* The conversation (app.py, class HiringAssistant, and main). The texts   *)
(* the candidate types are strings; the checks the handlers make on them   *)
(* are computed character by character.                                    *)
(***************************************************************************)
\* s[i:], s[:i], s[i] of Python, counting from 1
From(s, i) == SubSeq(s, i, Len(s))

CharAt(s, i) == SubSeq(s, i, i)

DigitChars == {"0", "1", "2", "3", "4", "5", "6", "7", "8", "9"}

LowerChars ==
    {"a", "b", "c", "d", "e", "f", "g", "h", "i", "j", "k", "l", "m",
     "n", "o", "p", "q", "r", "s", "t", "u", "v", "w", "x", "y", "z"}

UpperChars ==
    {"A", "B", "C", "D", "E", "F", "G", "H", "I", "J", "K", "L", "M",
     "N", "O", "P", "Q", "R", "S", "T", "U", "V", "W", "X", "Y", "Z"}

SpaceChars == {" ", "\t", "\n"}

\* str.lower() of the capital letters
LowerOf ==
    [c \in UpperChars |->
        CASE c = "A" -> "a" [] c = "B" -> "b" [] c = "C" -> "c" [] c = "D" -> "d"
          [] c = "E" -> "e" [] c = "F" -> "f" [] c = "G" -> "g" [] c = "H" -> "h"
          [] c = "I" -> "i" [] c = "J" -> "j" [] c = "K" -> "k" [] c = "L" -> "l"
          [] c = "M" -> "m" [] c = "N" -> "n" [] c = "O" -> "o" [] c = "P" -> "p"
          [] c = "Q" -> "q" [] c = "R" -> "r" [] c = "S" -> "s" [] c = "T" -> "t"
          [] c = "U" -> "u" [] c = "V" -> "v" [] c = "W" -> "w" [] c = "X" -> "x"
          [] c = "Y" -> "y" [] c = "Z" -> "z"]

\* str.lower()
Lower(s) ==
    LET lowered[i \in 0..Len(s)] ==
            IF i = 0 THEN ""
            ELSE lowered[i - 1]
                   \o (IF CharAt(s, i) \in UpperChars THEN LowerOf[CharAt(s, i)]
                       ELSE CharAt(s, i))
    IN  lowered[Len(s)]

\* str.lstrip(), str.rstrip(), str.strip()
RECURSIVE LStrip(_)
LStrip(s) ==
    IF s # "" /\ CharAt(s, 1) \in SpaceChars THEN LStrip(From(s, 2)) ELSE s

RECURSIVE RStrip(_)
RStrip(s) ==
    IF s # "" /\ CharAt(s, Len(s)) \in SpaceChars
    THEN RStrip(SubSeq(s, 1, Len(s) - 1)) ELSE s

Strip(s) == RStrip(LStrip(s))

\* sub in s
Contains(s, sub) ==
    \E i \in 1..(Len(s) - Len(sub) + 1) : SubSeq(s, i, i + Len(sub) - 1) = sub

\* s with every character of the set chars taken out: re.sub('[...]+', '', s)
\* and str.replace(c, '')
Without(s, chars) ==
    LET kept[i \in 0..Len(s)] ==
            IF i = 0 THEN ""
            ELSE kept[i - 1] \o (IF CharAt(s, i) \in chars THEN "" ELSE CharAt(s, i))
    IN  kept[Len(s)]

\* every character of s[i:j] is in chars
AllIn(s, i, j, chars) == \A k \in i..j : CharAt(s, k) \in chars

\* the first test of _handle_greeting_stage: more than two characters, none
\* of them a digit
IsName(name) == Len(name) > 2 /\ ~\E k \in 1..Len(name) : CharAt(name, k) \in DigitChars

\* validate_email:
\* re.match(r'^[a-zA-Z0-9._%+-]+@[a-zA-Z0-9.-]+\.[a-zA-Z]{2,}$', email);
\* '$' also matches before a newline that ends the string
ValidateEmail(email) ==
    LET local == LowerChars \cup UpperChars \cup DigitChars \cup {".", "_", "%", "+", "-"}
        domain == LowerChars \cup UpperChars \cup DigitChars \cup {".", "-"}
        Matches(s) ==
            \E at \in 2..Len(s), dot \in 3..Len(s) :
                /\ at + 1 < dot
                /\ dot + 2 <= Len(s)
                /\ AllIn(s, 1, at - 1, local)
                /\ CharAt(s, at) = "@"
                /\ AllIn(s, at + 1, dot - 1, domain)
                /\ CharAt(s, dot) = "."
                /\ AllIn(s, dot + 1, Len(s), LowerChars \cup UpperChars)
    IN  \/ Matches(email)
        \/ /\ email # ""
           /\ CharAt(email, Len(email)) = "\n"
           /\ Matches(SubSeq(email, 1, Len(email) - 1))

\* validate_phone: the separators are taken out with
\* re.sub(r'[\s\-$$$$\.]+', '', phone), then re.match(r'^\+?[1-9]\d{9,14}$')
ValidatePhone(phone) ==
    LET cleaned == Without(phone, SpaceChars \cup {"-", "$", "."})
        digits == IF cleaned # "" /\ CharAt(cleaned, 1) = "+" THEN From(cleaned, 2)
                  ELSE cleaned
    IN  /\ Len(digits) >= 10
        /\ Len(digits) <= 15
        /\ CharAt(digits, 1) \in DigitChars \ {"0"}
        /\ AllIn(digits, 2, Len(digits), DigitChars)

\* validate_experience: float(experience) of a decimal literal (blanks
\* around it, a sign, digits with at most one point) and 0 <= years <= 50;
\* any other text is taken as one float() raises ValueError on
ValidateExperience(experience) ==
    LET s == Strip(experience)
        signed == s # "" /\ CharAt(s, 1) \in {"+", "-"}
        number == IF signed THEN From(s, 2) ELSE s
        points == {k \in 1..Len(number) : CharAt(number, k) = "."}
        point == IF points = {} THEN Len(number) + 1 ELSE CHOOSE k \in points : TRUE
        whole == SubSeq(number, 1, point - 1)
        fraction == From(number, point + 1)
        tens == IF Len(whole) < 2 THEN "0" ELSE CharAt(whole, Len(whole) - 1)
    IN  /\ AllIn(number, 1, Len(number), DigitChars \cup {"."})
        /\ \E k \in 1..Len(number) : CharAt(number, k) \in DigitChars
        /\ Cardinality(points) <= 1
        /\ (signed /\ CharAt(s, 1) = "-") => AllIn(number, 1, Len(number), {"0", "."})
        /\ AllIn(whole, 1, Len(whole) - 2, {"0"})
        /\ \/ tens \in {"0", "1", "2", "3", "4"}
           \/ /\ tens = "5"
              /\ CharAt(whole, Len(whole)) = "0"
              /\ AllIn(fraction, 1, Len(fraction), {"0"})

(***************************************************************************)
(* The technologies the assistant knows (config.py) and the ones a text    *)
(* mentions (llm_client.py).                                               *)
(***************************************************************************)
\* the values of TECH_CATEGORIES, in the order of the dictionary
AllTechs ==
    << "Python", "JavaScript", "Java", "C++", "C#", "Go", "Rust",
       "TypeScript", "PHP", "Ruby", "Swift", "Kotlin", "Scala",
       "React", "Angular", "Vue.js", "Django", "Flask", "FastAPI",
       "Spring Boot", "Express.js", "Next.js", "Laravel", "Rails",
       "PostgreSQL", "MySQL", "MongoDB", "Redis", "SQLite",
       "Oracle", "Cassandra", "DynamoDB", "Elasticsearch",
       "AWS", "Google Cloud", "Azure", "Heroku", "Vercel",
       "Netlify", "DigitalOcean", "Kubernetes", "Docker",
       "Git", "Jenkins", "Docker", "Kubernetes", "Terraform",
       "Ansible", "Prometheus", "Grafana", "Jira", "Confluence" >>

\* tech_variations
TechVariations(tech) ==
    { Lower(tech), Without(Lower(tech), {"."}), Without(Lower(tech), {" "}),
      Without(Lower(tech), {"-"}) }

\* tech_variations of every element of all_techs
AllTechVariations == [k \in 1..Len(AllTechs) |-> TechVariations(AllTechs[k])]

InSeq(x, seq) == \E k \in 1..Len(seq) : seq[k] = x

\* the loop over all_techs: the places of the technologies it appends, those
\* with a variation in the text and not in found_techs already
FoundTechs(user_input_lower) ==
    {k \in 1..Len(AllTechs) :
        /\ \E variation \in AllTechVariations[k] : Contains(user_input_lower, variation)
        /\ \A j \in 1..(k - 1) : AllTechs[j] # AllTechs[k]}

\* LLMClient.extract_tech_stack
ExtractTechStack(user_input) ==
    LET found == FoundTechs(Lower(user_input))
        places == SelectSeq([k \in 1..Len(AllTechs) |-> k], LAMBDA k : k \in found)
    IN  [i \in 1..Len(places) |-> AllTechs[places[i]]]

\* ", ".join(items)
Join(items) ==
    LET joined[i \in 0..Len(items)] ==
            IF i = 0 THEN ""
            ELSE IF i = 1 THEN items[1]
            ELSE joined[i - 1] \o ", " \o items[i]
    IN  joined[Len(items)]

(***************************************************************************)
(* The questions of the technical part.                                    *)
(***************************************************************************)
\* questions[:5]
MaxQuestions == 5

\* _generate_technical_questions: the value it gives self.technical_questions
GenerateTechnicalQuestions(tech_stack) ==
    LET QuestionIfAny(techs, question) ==
            IF \E tech \in techs : InSeq(tech, tech_stack) THEN <<question>> ELSE <<>>
        questions ==
               QuestionIfAny({"Python", "JavaScript", "Java", "C++", "C#"},
                             "Can you explain the difference between synchronous and asynchronous programming, and when you would use each approach?")
            \o QuestionIfAny({"React", "Angular", "Vue.js", "Django", "Flask"},
                             "How do you handle state management in your applications, and what patterns do you prefer?")
            \o QuestionIfAny({"PostgreSQL", "MySQL", "MongoDB", "Redis"},
                             "How would you optimize a slow database query, and what tools would you use to identify the bottleneck?")
            \o QuestionIfAny({"AWS", "Google Cloud", "Azure", "Docker", "Kubernetes"},
                             "Can you walk me through how you would deploy a web application to production, including considerations for scalability and monitoring?")
            \o << "Describe a time when you had to work with a technology you weren't familiar with. How did you approach learning it?" >>
    IN  IF tech_stack = <<>>
        THEN << "Can you describe a challenging technical problem you solved recently?",
                "How do you handle debugging when something isn't working as expected?",
                "What's your process for learning new technologies?" >>
        ELSE SubSeq(questions, 1,
                    IF Len(questions) < MaxQuestions THEN Len(questions) ELSE MaxQuestions)

(***************************************************************************)
(* HiringAssistant. An assistant is the record of its fields; a handler is *)
(* the pair of the assistant it leaves and the response it returns. The    *)
(* text of a response is kept up to its first sentences.                   *)
(***************************************************************************)
\* CandidateInfo()
NewCandidateInfo ==
    [full_name |-> "", email |-> "", phone |-> "", years_experience |-> "",
     desired_positions |-> "", current_location |-> "", tech_stack |-> <<>>]

\* HiringAssistant.__init__
NewAssistant ==
    [conversation_ended |-> FALSE,
     current_stage |-> "greeting",
     candidate_info |-> NewCandidateInfo,
     technical_questions |-> <<>>,
     conversation_history |-> <<>>,
     current_question_index |-> 0]

Returns(assistant, response) == [assistant |-> assistant, response |-> response]

HandleGreetingStage_ToTechStack(a, user_input) ==
    LET name == Strip(user_input)
    IN  IF IsName(name)
        THEN Returns([a EXCEPT !.candidate_info.full_name = name,
                               !.current_stage = "tech_stack"],
                     "Nice to meet you, " \o name
                        \o "! Now, could you please provide your email address?")
        ELSE Returns(a, "I'd like to get your full name to personalize our conversation."
                        \o " Could you please tell me your name?")

\* _handle_greeting_stage
HandleGreetingStage(a, user_input) ==
    LET name == Strip(user_input)
    IN  IF IsName(name)
        THEN Returns([a EXCEPT !.candidate_info.full_name = name,
                               !.current_stage = "personal_info"],
                     "Nice to meet you, " \o name
                        \o "! Now, could you please provide your email address?")
        ELSE Returns(a, "I'd like to get your full name to personalize our conversation."
                        \o " Could you please tell me your name?")

\* a list of missing fields that always starts with the email
MissingFields_EmailFirst(candidate_info) ==
    <<"email">> \o
    SelectSeq(<<"phone", "years_experience", "desired_positions", "current_location">>,
              LAMBDA field : candidate_info[field] = "")

\* missing_fields of _handle_personal_info_stage
MissingFields(candidate_info) ==
    SelectSeq(<<"email", "phone", "years_experience", "desired_positions",
                "current_location">>,
              LAMBDA field : candidate_info[field] = "")

\* _handle_personal_info_stage
HandlePersonalInfoStage(a, user_input) ==
    LET missing_fields == MissingFields(a.candidate_info)
        current_field == missing_fields[1]
        AskTechStack == "Perfect! Now, could you tell me about your technical expertise?"
    IN  IF missing_fields = <<>>
        THEN Returns([a EXCEPT !.current_stage = "tech_stack"], AskTechStack)
        ELSE CASE current_field = "email" ->
                    IF ValidateEmail(user_input)
                    THEN Returns([a EXCEPT !.candidate_info.email = Strip(user_input)],
                                 "Great! What's your phone number?")
                    ELSE Returns(a, "That doesn't look like a valid email address."
                                    \o " Please enter a valid email address")
               [] current_field = "phone" ->
                    IF ValidatePhone(user_input)
                    THEN Returns([a EXCEPT !.candidate_info.phone = Strip(user_input)],
                                 "Perfect! How many years of professional experience do you have in technology?")
                    ELSE Returns(a, "That doesn't look like a valid phone number."
                                    \o " Please enter a valid phone number (10-15 digits)")
               [] current_field = "years_experience" ->
                    IF ValidateExperience(user_input)
                    THEN Returns([a EXCEPT !.candidate_info.years_experience = Strip(user_input)],
                                 "Excellent! What type of positions are you looking for?")
                    ELSE Returns(a, "Please provide a valid number of years.")
               [] current_field = "desired_positions" ->
                    Returns([a EXCEPT !.candidate_info.desired_positions = Strip(user_input)],
                            "Great! What's your current location or preferred work location?")
               [] current_field = "current_location" ->
                    Returns([a EXCEPT !.candidate_info.current_location = Strip(user_input),
                                      !.current_stage = "tech_stack"],
                            AskTechStack)

\* a handler that generates the questions before it looks at what was found
HandleTechStackStage_QuestionsFirst(a, user_input) ==
    LET extracted_techs == ExtractTechStack(user_input)
        technical_questions == GenerateTechnicalQuestions(extracted_techs)
    IN  IF extracted_techs # <<>>
        THEN Returns([a EXCEPT !.candidate_info.tech_stack = extracted_techs,
                               !.current_stage = "technical_questions",
                               !.technical_questions = technical_questions],
                     "Excellent! I can see you work with " \o Join(extracted_techs)
                        \o ". That's a great tech stack! " \o technical_questions[1])
        ELSE Returns([a EXCEPT !.technical_questions = technical_questions],
                     "I'd like to learn more about your technical skills.")

\* _handle_tech_stack_stage
HandleTechStackStage(a, user_input) ==
    LET extracted_techs == ExtractTechStack(user_input)
        technical_questions == GenerateTechnicalQuestions(extracted_techs)
    IN  IF extracted_techs # <<>>
        THEN Returns([a EXCEPT !.candidate_info.tech_stack = extracted_techs,
                               !.current_stage = "technical_questions",
                               !.technical_questions = technical_questions],
                     "Excellent! I can see you work with " \o Join(extracted_techs)
                        \o ". That's a great tech stack! " \o technical_questions[1])
        ELSE Returns(a, "I'd like to learn more about your technical skills.")

\* a handler that takes the last question for answered one answer early
HandleTechnicalQuestionsStage_OneEarly(a, user_input) ==
    IF a.current_question_index < Len(a.technical_questions)
    THEN LET index == a.current_question_index + 1
         IN  IF index + 1 < Len(a.technical_questions)
             THEN Returns([a EXCEPT !.current_question_index = index],
                          "Thank you for that detailed answer! Here's the next question: "
                             \o a.technical_questions[index + 1])
             ELSE Returns([a EXCEPT !.current_question_index = index,
                                    !.current_stage = "complete"],
                          "Excellent work! You've completed all the technical questions.")
    ELSE Returns(a, "Thank you for your response. Let me continue with the next question.")

\* _handle_technical_questions_stage
HandleTechnicalQuestionsStage(a, user_input) ==
    IF a.current_question_index < Len(a.technical_questions)
    THEN LET index == a.current_question_index + 1
         IN  IF index < Len(a.technical_questions)
             THEN Returns([a EXCEPT !.current_question_index = index],
                          "Thank you for that detailed answer! Here's the next question: "
                             \o a.technical_questions[index + 1])
             ELSE Returns([a EXCEPT !.current_question_index = index,
                                    !.current_stage = "complete"],
                          "Excellent work! You've completed all the technical questions.")
    ELSE Returns(a, "Thank you for your response. Let me continue with the next question.")

\* what LLMClient.generate_response may return: a completion of the service,
\* the mock response or the fallback response
LlmResponses ==
    { "Thank you for that information. Could you tell me more about your background?",
      "I apologize, but I'm experiencing some technical difficulties." }

\* _process_user_input; completion is the response of the language model
\* that _generate_contextual_response passes on
ProcessUserInput(a, user_input, completion) ==
    CASE a.current_stage = "greeting" -> HandleGreetingStage(a, user_input)
      [] a.current_stage = "personal_info" -> HandlePersonalInfoStage(a, user_input)
      [] a.current_stage = "tech_stack" -> HandleTechStackStage(a, user_input)
      [] a.current_stage = "technical_questions" -> HandleTechnicalQuestionsStage(a, user_input)
      [] OTHER -> Returns(a, completion)

Message(role, content) == [role |-> role, content |-> content]

\* a generate_response that records its reply only
GenerateResponse_ReplyOnly(a, user_input, completion) ==
    LET done == ProcessUserInput(a, user_input, completion)
    IN  Returns([done.assistant EXCEPT !.conversation_history =
                                           Append(@, Message("assistant", done.response))],
                done.response)

\* generate_response
GenerateResponse(a, user_input, completion) ==
    LET asked == [a EXCEPT !.conversation_history =
                               Append(@, Message("user", user_input))]
        done == ProcessUserInput(asked, user_input, completion)
    IN  Returns([done.assistant EXCEPT !.conversation_history =
                                           Append(@, Message("assistant", done.response))],
                done.response)

EndingKeywords == {"bye", "goodbye", "exit", "quit", "end", "stop", "thanks", "thank you"}

\* is_conversation_ending
IsConversationEnding(user_input) ==
    LET user_input_lower == Lower(user_input)
    IN  \E keyword \in EndingKeywords : Contains(user_input_lower, keyword)

(***************************************************************************)
(* The page (main): the session state, the chat input and the buttons that *)
(* start the session anew.                                                 *)
(***************************************************************************)
\* str(uuid.uuid4()): the n-th identifier drawn differs from all before it
Uuid4(n) == <<"uuid4", n>>

\* the session state after the first run of the page in the n-th session:
\* lines 483-500
NewSession(n) ==
    [started |-> n,
     session_id |-> Uuid4(n),
     exported |-> FALSE,   \* history: whether 'Export Data' was pressed in the session
     assistant |-> NewAssistant,
     messages |-> << Message("assistant", "Hello! Welcome to TalentScout's Hiring Assistant.") >>]

\* a page that passes every input to the assistant and ends afterwards
Entered_ThroughHandlers(s, user_input, completion) ==
    LET done == GenerateResponse(s.assistant, user_input, completion)
    IN  IF IsConversationEnding(user_input)
        THEN [s EXCEPT !.assistant = [done.assistant EXCEPT !.conversation_ended = TRUE,
                                                            !.current_stage = "complete"],
                       !.messages = @ \o << Message("user", user_input),
                                            Message("assistant", done.response) >>]
        ELSE [s EXCEPT !.assistant = done.assistant,
                       !.messages = @ \o << Message("user", user_input),
                                            Message("assistant", done.response) >>]

\* the session state after the candidate has entered user_input: the body of
\* 'if user_input:'
Entered(s, user_input, completion) ==
    IF IsConversationEnding(user_input)
    THEN [s EXCEPT !.assistant.conversation_ended = TRUE,
                   !.assistant.current_stage = "complete",
                   !.messages = @ \o << Message("user", user_input),
                                        Message("assistant",
                                                "Thank you for completing the screening process!") >>]
    ELSE LET done == GenerateResponse(s.assistant, user_input, completion)
         IN  [s EXCEPT !.assistant = done.assistant,
                       !.messages = @ \o << Message("user", user_input),
                                            Message("assistant", done.response) >>]

\* texts a candidate may enter: a name, an e-mail address, a phone number,
\* a number of years, technologies, a word that is none of these (and serves
\* as a position or a place), an ending keyword, a name with an ending
\* keyword inside, and a blank
ChatTexts ==
    { "Ann Lee", "ann@mail.org", "555-123-4567", "7", "Python and Redis",
      "hello", "bye", "Brenda", " " }

\* a conversation that takes every stage in turn, with three questions
Script ==
    << "Ann Lee", "ann@mail.org", "555-123-4567", "7", "Data engineer", "Pune",
       "Python and Redis", "hello", "hello", "hello" >>

\* the same with technologies of every kind, which give five questions
LongScript ==
    << "Ann Lee", "ann@mail.org", "555-123-4567", "7", "Data engineer", "Pune",
       "Java, React, MySQL, AWS", "hello", "hello", "hello", "hello", "hello" >>

\* the session state after the first k inputs of a script
RECURSIVE AfterScript(_, _)
AfterScript(script, k) ==
    IF k = 0 THEN NewSession(1)
    ELSE Entered(AfterScript(script, k - 1), script[k], CHOOSE c \in LlmResponses : TRUE)

\* the store the assistant constructed is empty; the conversation is at any
\* point of the script
InitChat ==
    /\ now = 0
    /\ exports = {}
    /\ ret = NoCall
    /\ injected = 0
    /\ erased = {}
    /\ calls = NoCalls
    /\ Constructed
    /\ encrypted = [s \in SessionIds |-> NoFile]
    /\ activity_log = <<>>
    /\ lastSaved = [s \in SessionIds |-> NoInput]
    /\ twin = NoTwin
    /\ budget = MaxInputs
    /\ session \in UNION { {AfterScript(script, k) : k \in 0..Len(script)} :
                             script \in {Script, LongScript} }

pageFrame == <<now, encrypted, exports, activity_log, ret, injected, lastSaved, erased,
               storeVars, twin, calls>>

\* a chat input that saves the session once the conversation is complete
ChatInput_SavingWhenComplete(user_input, completion) ==
    /\ session.session_id # None
    /\ ~session.assistant.conversation_ended
    /\ user_input # ""
    /\ budget > 0
    /\ budget' = budget - 1
    /\ session' = Entered(session, user_input, completion)
    /\ LET sid == session.session_id
           done == session'.assistant
           info == [f \in DOMAIN done.candidate_info |->
                       IF f = "tech_stack" THEN done.candidate_info[f]
                       ELSE PyStr(done.candidate_info[f])]
       IN  IF done.current_stage = "complete"
           THEN /\ encrypted' = [encrypted EXCEPT ![sid] =
                                    SaveWritten(@, sid, info, done.conversation_history,
                                                "none", now)]
                /\ activity_log' = SaveLogged(activity_log, sid, info, "none", now)
           ELSE UNCHANGED <<encrypted, activity_log>>
    /\ UNCHANGED <<now, exports, ret, injected, lastSaved, erased, storeVars, twin, calls>>

\* the chat input: lines 557-599
ChatInput(user_input, completion) ==
    /\ session.session_id # None
    /\ ~session.assistant.conversation_ended
    /\ user_input # ""
    /\ budget > 0
    /\ budget' = budget - 1
    /\ session' = Entered(session, user_input, completion)
    /\ UNCHANGED pageFrame

\* DataHandler() inside HiringAssistant(): each new assistant constructs its
\* store on the data directory
StoreConstructed ==
    LET r == GetOrCreateEncryptionKey(key_file, generated)
    IN  /\ key_file' = r.file
        /\ encryption_key' = r.key
        /\ generated' = r.generated
        /\ instance' = instance + 1

\* the page runs again on an empty session state: a new session id, a new
\* assistant, the greeting
Restarted ==
    /\ session' = NewSession(session.started + 1)
    /\ StoreConstructed

filesFrame == <<now, encrypted, exports, activity_log, ret, injected, lastSaved, erased,
                twin, calls>>

\* 'Start New Session', shown when the conversation has ended: every key of
\* the session state is deleted and the page runs again
StartNewSession ==
    /\ session.session_id # None
    /\ session.assistant.conversation_ended
    /\ session.started < MaxSessions
    /\ Restarted
    /\ UNCHANGED <<budget, filesFrame>>

\* a reset that removes what the store holds of the session it leaves
ResetSession_Erasing ==
    /\ session.session_id # None
    /\ session.started < MaxSessions
    /\ Restarted
    /\ encrypted' = [encrypted EXCEPT ![session.session_id] = NoFile]
    /\ exports' = {e \in exports : ~ExportMatches(e, session.session_id)}
    /\ UNCHANGED <<budget, now, activity_log, ret, injected, lastSaved, erased, twin, calls>>

\* 'Reset Session' of the sidebar
ResetSession ==
    /\ session.session_id # None
    /\ session.started < MaxSessions
    /\ Restarted
    /\ UNCHANGED <<budget, filesFrame>>

NextChat ==
    \/ \E user_input \in ChatTexts, completion \in LlmResponses :
           ChatInput(user_input, completion)
    \/ StartNewSession
    \/ ResetSession

SpecChat == InitChat /\ [][NextChat]_vars

(***************************************************************************)
(* SpecPage: the page with its store. The candidate enters texts and       *)
(* presses the buttons of the sidebar; the clock advances and the          *)
(* retention sweep of scripts/privacy_maintenance.py runs on the same data *)
(* directory.                                                              *)
(***************************************************************************)
\* the session ids the page can hand out
PageIds == {Uuid4(n) : n \in 1..MaxSessions}

\* the orders in which os.listdir can yield the record files of the page
PageListings ==
    {o \in [1..Cardinality(PageIds) -> PageIds] :
        \A i, j \in DOMAIN o : o[i] = o[j] => i = j}

\* self.candidate_info as save_candidate_data reads it, attribute by attribute
AsCandidate(candidate_info) ==
    [full_name |-> PyStr(candidate_info.full_name),
     email |-> PyStr(candidate_info.email),
     phone |-> PyStr(candidate_info.phone),
     current_location |-> PyStr(candidate_info.current_location),
     years_experience |-> PyStr(candidate_info.years_experience),
     desired_positions |-> PyStr(candidate_info.desired_positions),
     tech_stack |-> candidate_info.tech_stack]

\* texts entered on the page with its store: an answer and an ending keyword
PageTexts == {"hello", "bye"}

\* the data directory is empty; the conversation is at any point of the script
InitPage ==
    /\ now = 0
    /\ exports = {}
    /\ ret = NoCall
    /\ injected = 0
    /\ erased = {}
    /\ calls = NoCalls
    /\ Constructed
    /\ encrypted = [s \in PageIds |-> NoFile]
    /\ activity_log = <<>>
    /\ lastSaved = [s \in PageIds |-> NoInput]
    /\ twin = NoTwin
    /\ budget = MaxInputs
    /\ session \in {AfterScript(Script, k) : k \in 0..Len(Script)}

\* 'Export Data' of the sidebar: save_session_data, whose result is not
\* looked at, then export_session_data
ExportDataButton(save_fault, export_fault) ==
    /\ session.session_id # None
    /\ Step(save_fault # "none" \/ export_fault # "none")
    /\ LET sid == session.session_id
           info == AsCandidate(session.assistant.candidate_info)
           history == session.assistant.conversation_history
           files == [encrypted EXCEPT ![sid] =
                        SaveWritten(@, sid, info, history, save_fault, now)]
           saved == SaveLogged(activity_log, sid, info, save_fault, now)
       IN  /\ BuildRaises(info) => save_fault = "none"
           /\ ~LoadSucceeds(files[sid]) => export_fault = "none"
           /\ encrypted' = files
           /\ lastSaved' =
                IF SaveSucceeds(info, save_fault)
                THEN [lastSaved EXCEPT ![sid] = [saved |-> TRUE, info |-> info,
                                                 history |-> history,
                                                 instance |-> instance]]
                ELSE lastSaved
           /\ erased' = erased \ {sid}
           /\ activity_log' = ExportLogged(files, saved, sid, export_fault, now)
           /\ exports' =
                IF LoadSucceeds(files[sid]) /\ export_fault # "open"
                THEN WriteExport(exports, ExportData(DecryptedData(files[sid]), sid, now,
                                                     export_fault = "none"))
                ELSE exports
           /\ ret' = [op |-> "Export Data", sid |-> sid,
                      ok |-> LoadSucceeds(files[sid]) /\ export_fault = "none",
                      value |-> IF LoadSucceeds(files[sid]) /\ export_fault = "none"
                                THEN ExportFilename(sid, now) ELSE None]
    /\ session' = [session EXCEPT !.exported = TRUE]
    /\ UNCHANGED <<now, storeVars, twin, calls>>

\* 'Delete My Data' of the sidebar: delete_session_data; when it returns
\* True every key of the session state is deleted and the page runs again
DeleteMyData(fault) ==
    /\ session.session_id # None
    /\ Step(fault.at # "none")
    /\ LET sid == session.session_id
       IN  IF Exists(encrypted[sid])
           THEN LET r == RunDelete(DeleteSteps,
                                   [encrypted |-> encrypted, exports |-> exports,
                                    log |-> activity_log],
                                   sid, "user_request", now, fault)
                IN  /\ session.started < MaxSessions
                    /\ encrypted' = r.st.encrypted
                    /\ exports' = r.st.exports
                    /\ activity_log' = r.st.log
                    /\ ret' = [op |-> "Delete My Data", sid |-> sid, ok |-> r.ok,
                               value |-> None]
                    /\ erased' = IF r.ok THEN erased \cup {sid} ELSE erased
                    /\ IF r.ok THEN Restarted ELSE UNCHANGED <<session, storeVars>>
           ELSE /\ fault.at = "none"
                /\ ret' = [op |-> "Delete My Data", sid |-> sid, ok |-> FALSE,
                           value |-> None]
                /\ UNCHANGED <<encrypted, exports, activity_log, erased, session, storeVars>>
    /\ UNCHANGED <<now, lastSaved, twin, calls>>

NextPage ==
    \/ \E user_input \in PageTexts, completion \in LlmResponses :
           ChatInput(user_input, completion)
    \/ StartNewSession
    \/ ResetSession
    \/ \E save_fault \in SaveFaults, export_fault \in ExportFaults :
           ExportDataButton(save_fault, export_fault)
    \/ \E fault \in DeleteFaults(session.session_id) : DeleteMyData(fault)
    \/ Tick
    \/ \E d \in RetentionDays, order \in PageListings : Sweep(d, order, NoSweepFault)

SpecPage == InitPage /\ [][NextPage]_vars

(***************************************************************************)
(* The claims.                                                             *)
(***************************************************************************)
\* a step that is the call of operation op
Called(op) == budget' # budget /\ ret'.op = op

Absent(f) == f.kind = "none"

LastEntry(log) == log[Len(log)]

\* C1: once delete(id) has returned success, the record file of id is gone and
\* load(id) returns None, until save is called for id again.
C1_DeleteThenLoadAbsent ==
    \A sid \in erased :
        /\ Absent(encrypted[sid])
        /\ (ret.op = "load" /\ ret.sid = sid) => (~ret.ok /\ ret.value = None)

C1_Witness ==
    /\ ret.op = "load"
    /\ ret.sid \in erased
    /\ ~ret.ok

\* the transcript load returned, None when the result has no such key
LoadedHistory(data) == IF data.has_history THEN data.conversation_history ELSE None

\* C2 as stated: load after a successful save of r returns r in every field,
\* whatever fields of r are empty.
C2_RoundTripEveryField ==
    (ret.op = "load" /\ ret.ok /\ lastSaved[ret.sid].saved) =>
        /\ ret.value.candidate_info = lastSaved[ret.sid].info
        /\ LoadedHistory(ret.value) = lastSaved[ret.sid].history

\* what load returns for a string field saved as v
StoredStr(v) == IF Truthy(v) THEN v ELSE None

\* C2 amended: load after a successful save of r returns r in every field,
\* except that an empty full_name, email, phone or current_location comes back
\* as None and an empty or missing transcript comes back as no transcript.
C2_RoundTripNonEmpty ==
    (ret.op = "load" /\ ret.ok /\ lastSaved[ret.sid].saved) =>
        LET r == lastSaved[ret.sid].info
            got == ret.value.candidate_info
        IN  /\ got.full_name = StoredStr(r.full_name)
            /\ got.email = StoredStr(r.email)
            /\ got.phone = StoredStr(r.phone)
            /\ got.current_location = StoredStr(r.current_location)
            /\ got.years_experience = r.years_experience
            /\ got.desired_positions = r.desired_positions
            /\ got.tech_stack = r.tech_stack
            /\ IF TruthyList(lastSaved[ret.sid].history)
               THEN /\ ret.value.has_history
                    /\ ret.value.conversation_history = lastSaved[ret.sid].history
               ELSE ~ret.value.has_history

C2_Witness ==
    /\ ret.op = "load"
    /\ ret.ok
    /\ lastSaved[ret.sid].saved
    /\ lastSaved[ret.sid].info = CandPartial
    /\ ret.value.candidate_info.full_name = PyStr("Bo Roy")
    /\ ret.value.candidate_info.email = None
    /\ ~ret.value.has_history

\* the record files a sweep at time t with retention d has to remove
Due(files, t, d) ==
    {sid \in SessionIds :
        IsRecord(files[sid]) /\ files[sid].timestamp < t - d * DayLen}

C4_ExportsNeverOutliveRecord ==
    \A e \in exports : ~Absent(encrypted[e.session_id])

\* C5 as stated: every successful export adds an artifact distinct from all
\* the artifacts that exist, so two exports leave two artifacts.
C5_ExportsAreDistinct ==
    [][(Called("export") /\ ret'.ok) =>
        /\ ret'.value \notin {e.name : e \in exports}
        /\ Cardinality(exports') = Cardinality(exports) + 1]_vars

\* C6 as stated: the timestamp of a stored record never changes while the
\* record exists, a re-save of the session included.
C6_TimestampNeverChanges ==
    [][\A sid \in SessionIds :
        (IsRecord(encrypted[sid]) /\ IsRecord(encrypted'[sid])) =>
            encrypted'[sid].timestamp = encrypted[sid].timestamp]_vars

\* the activity kind an operation logs last
ActivityOf(op) ==
    CASE op = "save" -> "SAVE"
      [] op = "load" -> "LOAD"
      [] op = "export" -> "EXPORT"
      [] op = "delete" -> "DELETE"
      [] op = "sweep" -> "AUTO_DELETE"

\* C7: the audit log never holds more than 1000 entries; a step that appends
\* k entries keeps the earlier entries in their order, drops only the oldest
\* ones beyond the cap, and puts the new entries last.
C7_AuditLogCapped ==
    /\ [](Len(activity_log) <= AuditCap)
    /\ [][activity_log' # activity_log =>
            \E k \in 1..Cardinality(SessionIds) :
                LET n == Len(activity_log)
                    m == Len(activity_log')
                IN  /\ m = IF n + k > AuditCap THEN AuditCap ELSE n + k
                    /\ SubSeq(activity_log', 1, m - k)
                         = SubSeq(activity_log, n - (m - k) + 1, n)
                    /\ LastEntry(activity_log').activity = ActivityOf(ret'.op)]_vars

C7_Witness ==
    /\ Len(activity_log) = AuditCap
    /\ activity_log[1].activity = "LOAD"
    /\ LastEntry(activity_log).activity = "EXPORT"

\* C8: delete of a session that has no record file returns False, appends no
\* audit entry and removes no record and no export file.
C8_DeleteMissingIsNoOp ==
    [][(Called("delete") /\ Absent(encrypted[ret'.sid])) =>
        /\ ~ret'.ok
        /\ UNCHANGED <<activity_log, encrypted, exports>>]_vars

C8_Witness ==
    /\ ret.op = "delete"
    /\ ~ret.ok
    /\ Absent(encrypted[ret.sid])
    /\ exports # {}
    /\ activity_log # <<>>

\* C9 as stated: delete returns success whenever it has removed the record
\* file, even if the removal of an export file fails.
C9_DeleteSucceedsOnceRecordRemoved ==
    [][(Called("delete") /\ ~Absent(encrypted[ret'.sid])
            /\ Absent(encrypted'[ret'.sid])) => ret'.ok]_vars

Stuck(c) == ~(IsToken(c) /\ c[2] = encryption_key)

\* C11 as stated: load of a stored record returns a record and appends its
\* LOAD entry also when a field or the transcript cannot be decrypted; the
\* value that cannot be decrypted is returned as it is stored.
C11_LoadSurvivesDecryptFailure ==
    (ret.op = "load" /\ IsRecord(encrypted[ret.sid])) =>
        LET f == encrypted[ret.sid]
        IN  /\ ret.ok
            /\ activity_log # <<>>
            /\ LastEntry(activity_log).activity = "LOAD"
            /\ LastEntry(activity_log).session_id = ret.sid
            /\ \A part \in EncryptedFields :
                    (Truthy(f.candidate_info[part]) /\ Stuck(f.candidate_info[part])) =>
                        \E field \in DOMAIN ret.value.candidate_info :
                            ret.value.candidate_info[field] = f.candidate_info[part]
            /\ (f.has_history /\ Stuck(f.conversation_history_encrypted)) =>
                    ret.value.conversation_history = f.conversation_history_encrypted

\* an audit log without its timestamps
Redact(log) ==
    [i \in DOMAIN log |-> [activity |-> log[i].activity,
                           session_id |-> log[i].session_id,
                           metadata |-> log[i].metadata]]

\* C12 as stated: two runs that get the same calls and differ only in the
\* personal values passed to save (not in which of them are empty) have
\* audit logs with the same activity kinds, session ids and metadata.
C12_LogIndependentOfValues ==
    twin.on => Redact(activity_log) = Redact(twin.activity_log)

\* C12 amended: the same, for two runs whose email and phone values do not
\* differ in whether they can be encoded as UTF-8.
C12_LogIndependentOfEncodableValues ==
    (twin.on /\ twin.alike) => Redact(activity_log) = Redact(twin.activity_log)

C12_Witness ==
    /\ twin.on
    /\ twin.alike
    /\ Len(activity_log) >= 2
    /\ LastEntry(activity_log).activity = "EXPORT"
    /\ \E sid \in SessionIds :
        /\ IsRecord(encrypted[sid])
        /\ IsRecord(twin.encrypted[sid])
        /\ encrypted[sid].candidate_info.full_name_encrypted = WithSurrogate("Zo")
        /\ IsToken(twin.encrypted[sid].candidate_info.full_name_encrypted)

\* a stored value that is a ciphertext token, or null
EncryptedOrNull(c) == c = None \/ IsToken(c)

\* C13 as stated: in every stored record the name, email, phone and location
\* and the transcript are ciphertext, or null or absent; never plaintext.
C13_StoredOnlyEncrypted ==
    \A sid \in SessionIds :
        IsRecord(encrypted[sid]) =>
            /\ \A part \in EncryptedFields :
                    EncryptedOrNull(encrypted[sid].candidate_info[part])
            /\ EncryptedOrNull(encrypted[sid].conversation_history_encrypted)

\* the identifying fields of a record passed to save
IdentifyingFields == {"full_name", "email", "phone", "current_location"}

\* C17 as stated: after any sequence of saves, load of a session returns the
\* values of its most recent successful save: the non-empty identifying
\* fields and the other fields as saved, a transcript exactly when that save
\* had one, and nothing of an earlier or of a failed save.
C17_LastSuccessfulSaveWins ==
    (ret.op = "load" /\ lastSaved[ret.sid].saved) =>
        /\ ret.ok
        /\ \A field \in IdentifyingFields :
                ret.value.candidate_info[field] = StoredStr(lastSaved[ret.sid].info[field])
        /\ ret.value.candidate_info.tech_stack = lastSaved[ret.sid].info.tech_stack
        /\ ret.value.has_history = TruthyList(lastSaved[ret.sid].history)
        /\ ret.value.has_history =>
                ret.value.conversation_history = lastSaved[ret.sid].history

\* C18 as stated: save returns failure whenever a filesystem call or the
\* encryption of a field fails, and only a save that returns success appends
\* an entry, a SAVE entry for its session.
C18_SaveFailsOnAnyError ==
    [][Called("save") =>
        /\ injected' # injected => ~ret'.ok
        /\ ret'.ok =>
                \A field \in IdentifyingFields :
                    LET v == lastSaved'[ret'.sid].info[field]
                    IN  Truthy(v) => StrEncode(v) # Raised
        /\ activity_log' # activity_log =>
                /\ ret'.ok
                /\ LastEntry(activity_log').activity = "SAVE"
                /\ LastEntry(activity_log').session_id = ret'.sid]_vars

\* C19: load and export of a session that has no record file return None
\* and leave the record files, the export files and the audit log as they
\* were.
C19_MissingRecordIsNoOp ==
    [][((Called("load") \/ Called("export")) /\ Absent(encrypted[ret'.sid])) =>
        /\ ~ret'.ok
        /\ ret'.value = None
        /\ UNCHANGED <<encrypted, exports, activity_log>>]_vars

C19_Witness ==
    /\ ret.op = "export"
    /\ ~ret.ok
    /\ Absent(encrypted[ret.sid])
    /\ exports # {}
    /\ activity_log # <<>>
    /\ LastEntry(activity_log).session_id # ret.sid

\* the entries a step has appended to the audit log
Appended(before, after) == SubSeq(after, Len(before) + 1, Len(after))

C14_DecryptInvertsEncrypt ==
    (ret.op = "decrypt" /\ ret.how = "own" /\ ret.plain # PyStr("")) =>
        ret.value = ret.plain

C14_Witness ==
    /\ ret.op = "decrypt"
    /\ ret.how = "own"
    /\ HasSurrogate(ret.plain)
    /\ ret.arg = ret.plain
    /\ ret.value = ret.plain

\* C15: encrypt and decrypt return a value on every input (they never
\* raise); encrypt returns its input when the input cannot be encoded, and
\* decrypt returns its input when that is a corrupt ciphertext, a tampered
\* token or a token made under another key.
C15_EncryptDecryptTotal ==
    /\ ret.op \in {"encrypt", "decrypt"} => ret.value # Raised
    /\ (ret.op = "encrypt" /\ HasSurrogate(ret.arg)) => ret.value = ret.arg
    /\ (ret.op = "decrypt" /\ ret.how \in {"foreign", "tampered", "corrupt"}) =>
            ret.value = ret.arg

C15_Witness ==
    /\ ret.op = "decrypt"
    /\ ret.how = "foreign"
    /\ IsToken(ret.arg)
    /\ ret.value = ret.arg

\* C16: over the constructions of stores on one data directory a key is
\* generated at most once; a construction that finds the key file leaves it
\* as it is and takes its key; and a load through a store constructed after
\* the save returns the saved values (an empty field as None).
C16_KeyGeneratedOnceAndReused ==
    /\ [](generated <= 1)
    /\ [][instance' # instance =>
            /\ key_file # NoKeyFile => (key_file' = key_file /\ generated' = generated)
            /\ encryption_key' = key_file']_vars
    /\ []((ret.op = "load" /\ lastSaved[ret.sid].saved) =>
            /\ ret.ok
            /\ \A field \in IdentifyingFields :
                    ret.value.candidate_info[field] = StoredStr(lastSaved[ret.sid].info[field])
            /\ TruthyList(lastSaved[ret.sid].history) =>
                    ret.value.conversation_history = lastSaved[ret.sid].history)

C16_Witness ==
    /\ ret.op = "load"
    /\ ret.ok
    /\ lastSaved[ret.sid].saved
    /\ lastSaved[ret.sid].instance < instance
    /\ generated = 1
    /\ ret.value.candidate_info.full_name = PyStr("Ann Lee")
    /\ ret.value.has_history

Scrub(files) ==
    [sid \in SessionIds |->
        IF IsRecord(files[sid])
        THEN [files[sid] EXCEPT
                !.candidate_info.full_name_encrypted = None,
                !.candidate_info.email_encrypted = None,
                !.candidate_info.phone_encrypted = None,
                !.candidate_info.current_location_encrypted = None,
                !.conversation_history_encrypted = None]
        ELSE files[sid]]

\* C22: report leaves the record files, the export files, the key file, the
\* key of the store and the audit log as they were, and what it returns does
\* not depend on any ciphertext of a record: it is the report of the record
\* files with every ciphertext blanked.
C22_ReportIsReadOnly ==
    /\ [][Called("report") =>
            UNCHANGED <<encrypted, exports, key_file, encryption_key, activity_log>>]_vars
    /\ [](ret.op = "report" =>
            ret.value = PrivacyReport(Scrub(encrypted), activity_log,
                                      ret.value.generated_at[2]))

C22_Witness ==
    /\ ret.op = "report"
    /\ exports # {}
    /\ activity_log # <<>>
    /\ ret.value.data_summary.total_records = 1
    /\ \E sid \in SessionIds :
        /\ IsRecord(encrypted[sid])
        /\ IsToken(encrypted[sid].candidate_info.full_name_encrypted)

\* C23: report returns a report, not an error, also when a record file does
\* not parse; its total counts every record file, its oldest and newest
\* timestamps are the least and the greatest timestamp of the record files
\* that parse (none when there is none), and its recent activities are the
\* last min(10, n) entries of the audit log in their order.
C23_ReportSurvivesUnparseableRecord ==
    ret.op = "report" =>
        LET report == ret.value
            dates == {encrypted[sid].timestamp :
                        sid \in {x \in SessionIds : IsRecord(encrypted[x])}}
            n == Len(activity_log)
            k == IF n < 10 THEN n ELSE 10
        IN  /\ "error" \notin DOMAIN report
            /\ report.data_summary.total_records
                    = Cardinality({sid \in SessionIds : ~Absent(encrypted[sid])})
            /\ IF dates = {}
               THEN /\ report.data_summary.oldest_record = None
                    /\ report.data_summary.newest_record = None
               ELSE /\ report.data_summary.oldest_record[2] \in dates
                    /\ report.data_summary.newest_record[2] \in dates
                    /\ \A d \in dates :
                            /\ report.data_summary.oldest_record[2] <= d
                            /\ d <= report.data_summary.newest_record[2]
                    /\ report.data_summary.oldest_record[2]
                            <= report.data_summary.newest_record[2]
            /\ Len(report.recent_activities) = k
            /\ \A i \in 1..k : report.recent_activities[i] = activity_log[n - k + i]

C23_Witness ==
    /\ ret.op = "report"
    /\ \E sid \in SessionIds : encrypted[sid] = Corrupt
    /\ ret.value.data_summary.total_records = 2
    /\ ret.value.data_summary.oldest_record = IsoFormat(0)
    /\ Len(activity_log) > 10
    /\ Len(ret.value.recent_activities) = 10

\* the entry of a call as _log_data_activity writes it
Written(c) ==
    [timestamp |-> now, activity |-> c.entry.activity,
     session_id |-> c.entry.session_id, metadata |-> c.entry.metadata]

\* the entries that came after those the log held at first
NewEntries == SubSeq(activity_log, Len(RaceLog) + 1, Len(activity_log))

\* C24: no lock orders the appends of concurrent calls. Whenever the log
\* file is well-formed after an append, it holds the entries it held at
\* first followed by new ones, and it is the copy of one appender: the log
\* that call had loaded and its own entry after it, whatever other calls
\* wrote in between.
C24_AppendIsLoadAppendRewrite ==
    (calls.log_file = "ok" /\ \E p \in Procs : calls.proc[p].logged = "written") =>
        /\ Len(activity_log) > Len(RaceLog)
        /\ SubSeq(activity_log, 1, Len(RaceLog)) = RaceLog
        /\ \E p \in Procs :
            /\ calls.proc[p].logged = "written"
            /\ activity_log = Append(calls.proc[p].log_data, Written(calls.proc[p]))

\* the lost update: two appends have completed, the log holds the entry of
\* one and not that of the other
C24_Witness ==
    /\ calls.log_file = "ok"
    /\ \E p, q \in Procs :
        /\ p # q
        /\ calls.proc[p].logged = "written"
        /\ calls.proc[q].logged = "written"
        /\ calls.proc[p].log_data = RaceLog
        /\ calls.proc[q].log_data = RaceLog
        /\ NewEntries = <<Written(calls.proc[p])>>

\* C25: once the save and the delete of a session have both returned, the
\* record file exists exactly when delete removed the old file before save
\* opened the new one, and then it holds what save wrote, although delete
\* returned True (resurrected data); save returned True unless the file
\* was removed between its open and its chmod, so a removal after the chmod
\* leaves no record although save returned True (lost data).
C25_SaveDeleteRace ==
    \A sid \in DOMAIN encrypted :
        LET s == calls.proc[SavePid(sid)]
            d == calls.proc[DeletePid(sid)]
        IN  (calls # NoCalls /\ s.pc = "done" /\ d.pc = "done") =>
                /\ d.ok
                /\ Exists(encrypted[sid]) <=> s.unlinked_at = "start"
                /\ Exists(encrypted[sid]) => encrypted[sid] = s.data
                /\ s.ok <=> s.unlinked_at \notin {"dump", "chmod"}

\* lost data in one session and resurrected data in the other
C25_Witness ==
    /\ \A p \in Procs : calls.proc[p].pc = "done"
    /\ \E lost, back \in SessionIds :
        /\ calls.proc[SavePid(lost)].ok
        /\ Absent(encrypted[lost])
        /\ calls.proc[DeletePid(back)].ok
        /\ IsRecord(encrypted[back])
        /\ encrypted[back] = calls.proc[SavePid(back)].data

\* C26: every stored record has completion_status 'complete' and an
\* encrypted transcript, or 'incomplete' and no transcript; and the record
\* a successful save has written is 'complete' exactly when the save was
\* given a transcript that is not empty.
C26_CompletionStatusFollowsTranscript ==
    /\ [](\A sid \in SessionIds :
            IsRecord(encrypted[sid]) =>
                \/ /\ encrypted[sid].completion_status = "complete"
                   /\ encrypted[sid].has_history
                   /\ IsToken(encrypted[sid].conversation_history_encrypted)
                \/ /\ encrypted[sid].completion_status = "incomplete"
                   /\ ~encrypted[sid].has_history
                   /\ encrypted[sid].conversation_history_encrypted = None)
    /\ [][(Called("save") /\ ret'.ok) =>
            /\ IsRecord(encrypted'[ret'.sid])
            /\ encrypted'[ret'.sid].completion_status = "complete"
                    <=> (/\ lastSaved'[ret'.sid].history # None
                         /\ Len(lastSaved'[ret'.sid].history) > 0)]_vars

C26_Witness ==
    /\ ret.op = "save"
    /\ ret.ok
    /\ lastSaved[ret.sid].history = <<>>
    /\ encrypted[ret.sid].completion_status = "incomplete"
    /\ \E sid \in SessionIds :
        /\ IsRecord(encrypted[sid])
        /\ encrypted[sid].completion_status = "complete"
        /\ IsToken(encrypted[sid].conversation_history_encrypted)

C28_DeleteTouchesOnlyItsSession ==
    [][Called("delete") =>
        \A other \in SessionIds \ {ret'.sid} :
            /\ encrypted'[other] = encrypted[other]
            /\ {e \in exports' : e.session_id = other}
                    = {e \in exports : e.session_id = other}]_vars

\* C29 as stated: a save that returns False leaves the record file of its
\* session as it was: the old record if there was one, no file if there
\* was none.
C29_FailedSaveKeepsOldRecord ==
    [][(Called("save") /\ ~ret'.ok) => encrypted'[ret'.sid] = encrypted[ret'.sid]]_vars

\* the place of a stage in the order of the conversation
StageOrder == <<"greeting", "personal_info", "tech_stack", "technical_questions", "complete">>

StageIndex(stage) == CHOOSE k \in 1..Len(StageOrder) : StageOrder[k] = stage

\* a step in which the candidate of the running session enters a text
InputStep ==
    /\ session.session_id # None
    /\ session'.session_id = session.session_id
    /\ Len(session'.messages) = Len(session.messages) + 2

\* the text entered in an input step
InputText == session'.messages[Len(session.messages) + 1].content

\* C30: the stage only moves forward along greeting, personal_info,
\* tech_stack, technical_questions, complete: every input keeps the stage or
\* advances it to the next stage of this order, never backwards and never past
\* a stage, except that an input with an ending keyword takes it to complete
\* from any stage.
C30_StageMovesForwardOnly ==
    [][InputStep =>
        LET before == StageIndex(session.assistant.current_stage)
            after == StageIndex(session'.assistant.current_stage)
        IN  /\ session'.assistant.current_stage \in {StageOrder[k] : k \in 1..Len(StageOrder)}
            /\ \/ after = before
               \/ after = before + 1
               \/ IsConversationEnding(InputText) /\ after = Len(StageOrder)]_vars

\* an answer to the last question has taken the conversation from the
\* technical questions to complete, and no ending keyword was entered
C30_Witness ==
    /\ session.session_id # None
    /\ budget < MaxInputs
    /\ session.assistant.current_stage = "complete"
    /\ ~session.assistant.conversation_ended
    /\ session.assistant.current_question_index = Len(session.assistant.technical_questions)
    /\ Len(session.assistant.technical_questions) > 0

\* the six fields of the intake, in the order in which they are asked
IntakeFields ==
    <<"full_name", "email", "phone", "years_experience", "desired_positions",
      "current_location">>

\* the places in that order of the fields that hold a value
Filled(candidate_info) ==
    {k \in 1..Len(IntakeFields) : candidate_info[IntakeFields[k]] # ""}

\* the stage handlers, not an ending keyword, have brought the conversation
\* to the tech stack or further
PastIntake ==
    /\ session.session_id # None
    /\ ~session.assistant.conversation_ended
    /\ session.assistant.current_stage \in {"tech_stack", "technical_questions", "complete"}

\* C31: the intake fields are filled in the order name, email, phone, years
\* of experience, desired positions, location, at most one with each input,
\* and a field that holds a value is never given another; once the handlers
\* have brought the stage to tech_stack or further, all six hold a value.
C31_IntakeInOrder ==
    /\ [](session.session_id # None =>
            \E k \in 0..Len(IntakeFields) :
                Filled(session.assistant.candidate_info) = 1..k)
    /\ [](PastIntake =>
            Filled(session.assistant.candidate_info) = 1..Len(IntakeFields))
    /\ [][InputStep =>
            LET before == session.assistant.candidate_info
                after == session'.assistant.candidate_info
            IN  /\ \A k \in Filled(before) : after[IntakeFields[k]] = before[IntakeFields[k]]
                /\ Cardinality(Filled(after) \ Filled(before)) <= 1]_vars

\* the stage the assistant is in turns the text down
Rejected(a, user_input) ==
    \/ a.current_stage = "greeting" /\ ~IsName(Strip(user_input))
    \/ /\ a.current_stage = "personal_info"
       /\ \/ a.candidate_info.email = "" /\ ~ValidateEmail(user_input)
          \/ /\ a.candidate_info.email # ""
             /\ a.candidate_info.phone = ""
             /\ ~ValidatePhone(user_input)
          \/ /\ a.candidate_info.email # ""
             /\ a.candidate_info.phone # ""
             /\ a.candidate_info.years_experience = ""
             /\ ~ValidateExperience(user_input)
    \/ a.current_stage = "tech_stack" /\ ExtractTechStack(user_input) = <<>>

\* an input step whose text goes to the stage handlers
HandledStep == InputStep /\ ~IsConversationEnding(InputText)

\* C32: an input that its stage rejects (a name of fewer than three
\* characters or with a digit, an invalid email, phone or experience, a text
\* without a known technology) leaves the stage, every candidate field, the
\* question list and the question index as they were; only the conversation
\* history grows.
C32_RejectedInputChangesNothing ==
    [][(HandledStep /\ Rejected(session.assistant, InputText)) =>
        LET before == session.assistant
            after == session'.assistant
        IN  /\ after.current_stage = before.current_stage
            /\ after.candidate_info = before.candidate_info
            /\ after.technical_questions = before.technical_questions
            /\ after.current_question_index = before.current_question_index
            /\ after.conversation_ended = before.conversation_ended
            /\ Len(after.conversation_history) = Len(before.conversation_history) + 2
            /\ SubSeq(after.conversation_history, 1, Len(before.conversation_history))
                  = before.conversation_history]_vars

\* a text without a technology has just been turned down at the tech stack
C32_Witness ==
    /\ session.session_id # None
    /\ budget < MaxInputs
    /\ session.assistant.current_stage = "tech_stack"
    /\ ~session.assistant.conversation_ended
    /\ LET history == session.assistant.conversation_history
       IN  /\ Len(history) >= 2
           /\ history[Len(history) - 1] = Message("user", "hello")
           /\ session.assistant.candidate_info.tech_stack = <<>>

\* in the stage of the technical questions there are one to five questions
\* and the index points at one of them
QuestionsInRange ==
    (session.session_id # None /\ session.assistant.current_stage = "technical_questions") =>
        /\ Len(session.assistant.technical_questions) \in 1..5
        /\ session.assistant.current_question_index \in
              0..(Len(session.assistant.technical_questions) - 1)

\* C33 as stated: in stage technical_questions the list has one to five
\* questions and 0 <= current_question_index < their number; an input takes
\* the stage to complete exactly when it answers the last question, that is
\* after as many answers as there are questions.
C33_CompleteExactlyAfterLastAnswer ==
    /\ []QuestionsInRange
    /\ [][(InputStep /\ session.assistant.current_stage = "technical_questions") =>
            /\ session'.assistant.current_stage = "complete"
                  <=> session.assistant.current_question_index + 1
                        = Len(session.assistant.technical_questions)
            /\ session'.assistant.current_stage = "complete"
                  => session'.assistant.current_question_index
                       = Len(session'.assistant.technical_questions)]_vars

\* C33, amended: the same for the inputs that reach the stage handler; an
\* input with an ending keyword takes the stage to complete at any question
\* and is not counted as an answer.
C33_CompleteAfterLastAnswerOrEnding ==
    /\ []QuestionsInRange
    /\ [][(InputStep /\ session.assistant.current_stage = "technical_questions") =>
            LET index == session.assistant.current_question_index
                questions == session.assistant.technical_questions
            IN  /\ session'.assistant.technical_questions = questions
                /\ IF IsConversationEnding(InputText)
                   THEN /\ session'.assistant.current_stage = "complete"
                        /\ session'.assistant.current_question_index = index
                   ELSE /\ session'.assistant.current_question_index = index + 1
                        /\ session'.assistant.current_stage =
                              IF index + 1 = Len(questions) THEN "complete"
                              ELSE "technical_questions"]_vars

\* the fifth of five questions has been answered in this run
C33_Witness ==
    /\ session.session_id # None
    /\ budget < MaxInputs
    /\ session.assistant.current_stage = "complete"
    /\ ~session.assistant.conversation_ended
    /\ Len(session.assistant.technical_questions) = 5
    /\ session.assistant.current_question_index = 5
    /\ Len(session.assistant.conversation_history) = 2 * (7 + 5)

(***************************************************************************)
(* A candidate who answers what is asked, with a text the stage takes.     *)
(***************************************************************************)
\* the stage takes the text: it is not turned down and, where the handler
\* stores the text unchecked, it is not blank
Accepted(a, user_input) ==
    /\ ~Rejected(a, user_input)
    /\ (a.current_stage = "personal_info" /\ a.candidate_info.years_experience # "")
          => Strip(user_input) # ""

\* texts a candidate may give to what the assistant asks for
AnswersTo(a) ==
    CASE a.current_stage = "greeting" -> {"Ann Lee", "Brenda"}
      [] a.current_stage = "personal_info" ->
            (CASE a.candidate_info.email = "" -> {"ann@mail.org"}
               [] a.candidate_info.phone = "" -> {"555-123-4567", "+1 555 123 4567"}
               [] a.candidate_info.years_experience = "" -> {"7", " 3.5 "}
               [] a.candidate_info.desired_positions = "" ->
                    {"Data engineer", "Backend developer"}
               [] OTHER -> {"Pune", "Remote"})
      [] a.current_stage = "tech_stack" ->
            {"Python and Redis", "Java, React, MySQL, AWS", "I am good at it"}
      [] OTHER -> {"hello", "it depends"}

\* the number of texts the candidate has entered in the session
InputsEntered == (Len(session.messages) - 1) \div 2

\* the inputs of the longest conversation: the name, the five fields of the
\* intake, the tech stack and an answer to each question
InputsToComplete == Len(IntakeFields) + 1 + MaxQuestions

\* a new conversation, with inputs enough for the longest one
InitValid ==
    /\ now = 0
    /\ exports = {}
    /\ ret = NoCall
    /\ injected = 0
    /\ erased = {}
    /\ calls = NoCalls
    /\ Constructed
    /\ encrypted = [s \in SessionIds |-> NoFile]
    /\ activity_log = <<>>
    /\ lastSaved = [s \in SessionIds |-> NoInput]
    /\ twin = NoTwin
    /\ budget = InputsToComplete
    /\ session = NewSession(1)

\* the candidate enters a text the current stage takes, as long as the
\* conversation is not complete
ValidInput ==
    /\ session.assistant.current_stage # "complete"
    /\ \E user_input \in AnswersTo(session.assistant), completion \in LlmResponses :
          /\ Accepted(session.assistant, user_input)
          /\ ChatInput(user_input, completion)

\* the candidate keeps supplying inputs
SpecValid == InitValid /\ [][ValidInput]_vars /\ WF_vars(ValidInput)

\* C34: if the candidate keeps supplying inputs and each is valid for the
\* current stage, the conversation reaches stage complete, after at most one
\* input for the name, five for the intake fields, one for the tech stack
\* and one for each question generated (exactly that many when no ending
\* keyword cuts it short).
C34_ValidInputsReachComplete ==
    /\ <>(session.assistant.current_stage = "complete")
    /\ [](InputsEntered <= InputsToComplete)
    /\ []((session.assistant.current_stage = "complete"
              /\ ~session.assistant.conversation_ended)
            => InputsEntered = Len(IntakeFields) + 1
                                 + Len(session.assistant.technical_questions))

\* the longest conversation is complete: twelve inputs, five questions
C34_Witness ==
    /\ session.assistant.current_stage = "complete"
    /\ ~session.assistant.conversation_ended
    /\ InputsEntered = InputsToComplete
    /\ budget = 0

\* C35: an input with an ending keyword, at whatever stage, sets
\* conversation_ended and the stage complete and is not passed to the stage
\* handlers: the candidate fields, the questions, the index and the
\* assistant's conversation history stay as they were. Once
\* conversation_ended is set it stays set and no input is processed, until
\* the session is started anew.
C35_EndingKeywordEndsConversation ==
    /\ [][(InputStep /\ IsConversationEnding(InputText)) =>
            session'.assistant = [session.assistant EXCEPT !.conversation_ended = TRUE,
                                                           !.current_stage = "complete"]]_vars
    /\ [][(session.session_id # None /\ session.assistant.conversation_ended) =>
            \/ session' = session
            \/ session'.session_id # session.session_id]_vars

\* the conversation was ended by a keyword in the middle of the questions
C35_Witness ==
    /\ session.session_id # None
    /\ budget < MaxInputs
    /\ session.assistant.conversation_ended
    /\ session.assistant.current_stage = "complete"
    /\ session.assistant.current_question_index
          < Len(session.assistant.technical_questions)
    /\ IsConversationEnding(session.messages[Len(session.messages) - 1].content)
    /\ Len(session.messages) = Len(session.assistant.conversation_history) + 3

\* a step in which the candidate enters a text
TextEntered ==
    /\ session'.session_id = session.session_id
    /\ Len(session'.messages) > Len(session.messages)

\* a step in which the candidate presses a button of the sidebar
Pressed(button) == Called(button) /\ ~TextEntered

SessionReset == session'.session_id # session.session_id /\ budget' = budget

\* a step of the retention sweep
SweepRan == Called("sweep") /\ ~TextEntered

\* the names of the export files of a session
ExportNames(files, sid) == {e.name : e \in {x \in files : ExportMatches(x, sid)}}

\* C37: 'Reset Session' and 'Start New Session' clear the session state in
\* memory only and give the page a session id that was not used before: the
\* record files, the export files and the audit log are the same after the
\* step, and the store holds nothing under the new id. What the store holds
\* of a session the page has left does not change, until the retention sweep
\* takes it; a record file or an export file of any session is removed only
\* by 'Delete My Data' of that session or by the retention sweep.
C37_ResetLeavesStoredData ==
    [][ /\ SessionReset =>
              /\ UNCHANGED <<encrypted, exports, activity_log>>
              /\ session' = NewSession(session.started + 1)
              /\ ~Exists(encrypted'[session'.session_id])
              /\ ExportNames(exports', session'.session_id) = {}
              /\ \A i \in 1..Len(activity_log') :
                    activity_log'[i].session_id # session'.session_id
        /\ \A sid \in PageIds \ {session.session_id} :
              (\/ encrypted'[sid] # encrypted[sid]
               \/ {e \in exports' : ExportMatches(e, sid)}
                    # {e \in exports : ExportMatches(e, sid)}) => SweepRan
        /\ \A sid \in PageIds :
              (\/ Exists(encrypted[sid]) /\ ~Exists(encrypted'[sid])
               \/ ~(ExportNames(exports, sid) \subseteq ExportNames(exports', sid))) =>
                  \/ SweepRan
                  \/ Pressed("Delete My Data") /\ ret'.sid = sid
      ]_vars

\* the page was reset after an export: the new session has nothing but the
\* greeting, and the record and the export file of the session before are
\* in the store
C37_Witness ==
    /\ session = NewSession(2)
    /\ Exists(encrypted[Uuid4(1)])
    /\ ExportNames(exports, Uuid4(1)) # {}
    /\ activity_log # <<>>

\* self.conversation_history of the assistant of the page
History == session.assistant.conversation_history

\* C38: every call of generate_response appends two entries to the
\* conversation history, the user's text and then the assistant's reply; the
\* history of a session never shrinks, its length is even and its roles
\* alternate, a user entry first.
C38_HistoryInPairs ==
    /\ [](/\ Len(History) % 2 = 0
           /\ \A i \in 1..Len(History) :
                 History[i].role = IF i % 2 = 1 THEN "user" ELSE "assistant")
    /\ [][ session'.session_id = session.session_id =>
              LET history == session'.assistant.conversation_history
              IN  /\ Len(history) >= Len(History)
                  /\ SubSeq(history, 1, Len(History)) = History
                  /\ (InputStep /\ ~IsConversationEnding(InputText)) =>
                        /\ Len(history) = Len(History) + 2
                        /\ history[Len(history) - 1] = Message("user", InputText)
                        /\ history[Len(history)].role = "assistant"
                        /\ history[Len(history)].content
                              = session'.messages[Len(session'.messages)].content
                  /\ (InputStep /\ IsConversationEnding(InputText)) =>
                        history = History
      ]_vars

\* three more inputs have been handled after the start and the history
\* holds their pairs
C38_Witness ==
    /\ budget = 0
    /\ Len(History) >= 6
    /\ ~session.assistant.conversation_ended

====
